---- MODULE Spec2Model ----
(***************************************************************************)
(* Model of the ingestion core of email-jobs-tracker (backend/app).        *)
(*                                                                         *)
(* Modelling notes.                                                        *)
(*  - services/email_processor.py holds unresolved merge markers inside    *)
(*    run_sync_with_options; the model follows the "Stashed changes" side  *)
(*    (worker threads + single-writer loop, lines 696-731 and 769-832),    *)
(*    together with the code shared by both sides.                         *)
(*  - Some call sites pass fewer arguments than the callee declares        *)
(*    (get_cached_classification_redis(h), set_cached_classification_redis *)
(*    (h, state), _gmail_creds_ready_for_background()).  The omitted       *)
(*    user_id is modelled as the absent user NoUser (Python None).         *)
(*  - The storage schema is the one the migrations produce, plus the       *)
(*    indexes of models.py.                                                *)
(*  - Timestamps are logical: a write made by task t stores t.             *)
(***************************************************************************)
EXTENDS Integers, Sequences, FiniteSets, TLC

\* ------------------------------------------------------------------ bounds
MaxTasks == 2
MaxMsgs  == 1

\* two users: enough to tell one user's state from another's
Users   == {1, 2}
TaskIds == 1..MaxTasks

None   == "None"
NoRow  == [absent |-> TRUE]
NoUser == 0

VARIABLES
    sync_state,      \* SyncState table: user -> latest row, or NoRow
    _state_by_user,  \* sync_state.py in-memory state: user -> dict, or NoRow
    tasks,           \* background tasks: id -> [user, kind, pc]
    applications,    \* committed rows of the applications table
    email_logs,      \* committed rows of the email_logs table
    classification_cache,  \* committed rows of the classification_cache table (L2)
    redis,           \* L1 entries: [user, content_hash, payload]
    _redis_unavailable,    \* redis_cache.py: the connection failed once
    runs,            \* run_sync_with_options activations: id -> frame
    plan,            \* run_sync_with_options, fetch planning and Phase 3: frame
    sync_metadata,   \* SyncMetadata row last_synced_at (all users): value, 0 if absent
    pfetch,          \* fetch_emails_parallel activation: frame
    hfetch,          \* fetch_emails_from_history activation: frame
    oauth_state,     \* OAuthState table: state_token -> row, or NoRow
    issued,          \* state tokens drawn so far by the two start endpoints
    consumed,        \* state_token -> number of consume calls that returned its payload
    clock,           \* datetime.utcnow(), in seconds
    callbacks,       \* OAuth callback requests in progress: id -> frame
    token_files,     \* token files on disk: path -> pickled credentials, or NoFile
    gmail_cb,        \* the last finish_gmail_oauth call: its arguments and outcome
    app,             \* classification columns of each Application: id -> row, or NoRow
    state_cache,     \* raw_json of the classification_cache row of the content, or NoRow
    mail,            \* the content that the messages to classify carry, or NoRow
    lg_call,         \* the last call of a langgraph_pipeline function: arguments and outcome
    cache_tx,        \* Sessions calling persist_llm_result_to_cache: id -> frame
    retry_call,      \* the last call of a retry helper: arguments and outcome
    efetch,          \* fetch_emails activation: frame
    wl,              \* Phase 2 of a run under storage contention: frame
    p2,              \* the threads of Phase 2 of a run: frame
    reprocess_state, \* ReprocessState table: the rows of each user
    rtasks           \* reprocess requests and their background tasks: id -> frame

coordVars == <<sync_state, _state_by_user, tasks>>
pipeVars == <<applications, email_logs, classification_cache, redis,
              _redis_unavailable, runs>>
fetchVars == <<plan, sync_metadata, pfetch, hfetch>>
authVars == <<oauth_state, issued, consumed, clock, callbacks, token_files, gmail_cb>>
classVars == <<app, state_cache, mail, lg_call>>
\* the variables of the subsystems that the sync tasks do not touch
svcVars == <<cache_tx, retry_call, efetch, wl, p2, reprocess_state, rtasks>>
\* svcVars without the variable(s) of one part
notCacheTx == <<retry_call, efetch, wl, p2, reprocess_state, rtasks>>
notRetryCall == <<cache_tx, efetch, wl, p2, reprocess_state, rtasks>>
notFetchEmails == <<cache_tx, retry_call, wl, p2, reprocess_state, rtasks>>
notWriterLoop == <<cache_tx, retry_call, efetch, p2, reprocess_state, rtasks>>
notPhase2 == <<cache_tx, retry_call, efetch, wl, reprocess_state, rtasks>>
notReprocess == <<cache_tx, retry_call, efetch, wl, p2>>
otherVars == <<authVars, classVars, svcVars>>
vars == <<sync_state, _state_by_user, tasks, applications, email_logs,
          classification_cache, redis, _redis_unavailable, runs,
          plan, sync_metadata, pfetch, hfetch,
          oauth_state, issued, consumed, clock, callbacks, token_files, gmail_cb,
          app, state_cache, mail, lg_call,
          cache_tx, retry_call, efetch, wl, p2, reprocess_state, rtasks>>

\* ------------------------------------------------------- sync_state_db.py

\* models.py SyncState column defaults
SyncStateRow ==
    [status |-> "idle", error |-> None, processed |-> 0, total |-> 0,
     message |-> None, created |-> 0, skipped |-> 0, errors |-> 0,
     last_synced_at |-> 0, last_full_sync_at |-> 0, last_history_id |-> None]

get_sync_state(u) == sync_state[u]

set_sync_state_syncing(row) ==
    IF row # NoRow
    THEN [row EXCEPT !.status = "syncing", !.error = None, !.processed = 0,
                     !.total = 0, !.message = "Connecting"]
    ELSE [SyncStateRow EXCEPT !.status = "syncing", !.processed = 0,
                              !.total = 0, !.message = "Connecting"]

set_sync_progress(row, processed, total, message) ==
    IF row # NoRow
    THEN [row EXCEPT !.processed = processed, !.total = total, !.message = message]
    ELSE [SyncStateRow EXCEPT !.status = "syncing", !.processed = processed,
                              !.total = total, !.message = message]

\* set_sync_state_idle without lines 135-136
set_sync_state_idle_keeps_full(row, result, now) ==
    IF row # NoRow
    THEN [row EXCEPT !.status = "idle", !.error = result.error,
                     !.processed = result.processed, !.total = result.processed,
                     !.message = "Done", !.created = result.created,
                     !.skipped = result.skipped, !.errors = result.errors,
                     !.last_synced_at = now]
    ELSE [SyncStateRow EXCEPT !.status = "idle", !.last_synced_at = now,
                              !.processed = result.processed, !.total = result.processed,
                              !.message = "Done", !.created = result.created,
                              !.skipped = result.skipped, !.errors = result.errors]

set_sync_state_idle(row, result, now) ==
    IF row # NoRow
    THEN [row EXCEPT !.status = "idle", !.error = result.error,
                     !.processed = result.processed, !.total = result.processed,
                     !.message = "Done", !.created = result.created,
                     !.skipped = result.skipped, !.errors = result.errors,
                     !.last_synced_at = now,
                     !.last_full_sync_at = IF result.full_sync THEN now ELSE @]
    ELSE [SyncStateRow EXCEPT !.status = "idle", !.last_synced_at = now,
                              !.processed = result.processed, !.total = result.processed,
                              !.message = "Done", !.created = result.created,
                              !.skipped = result.skipped, !.errors = result.errors]

\* set_sync_state_error that also forgets the cursor and the sync times
set_sync_state_error_resets(row, error) ==
    IF row # NoRow
    THEN [row EXCEPT !.status = "error", !.error = error, !.message = "",
                     !.last_history_id = None, !.last_synced_at = 0,
                     !.last_full_sync_at = 0]
    ELSE [SyncStateRow EXCEPT !.status = "error", !.error = error]

set_sync_state_error(row, error) ==
    IF row # NoRow
    THEN [row EXCEPT !.status = "error", !.error = error, !.message = ""]
    ELSE [SyncStateRow EXCEPT !.status = "error", !.error = error]

\* GET /sync-status and the SSE stream read this projection
get_state_from_db(u) ==
    LET row == get_sync_state(u)
        default == [status |-> "idle", message |-> "", processed |-> 0, total |-> 0,
                    created |-> 0, skipped |-> 0, errors |-> 0, error |-> None]
    IN IF row = NoRow THEN default
       ELSE [status |-> row.status,
             message |-> IF row.message = None THEN "" ELSE row.message,
             processed |-> row.processed, total |-> row.total,
             created |-> row.created, skipped |-> row.skipped,
             errors |-> row.errors, error |-> row.error]

\* ----------------------------------------------------------- sync_state.py

_DEFAULT_STATE ==
    [status |-> "idle", message |-> "", processed |-> 0, total |-> 0,
     created |-> 0, skipped |-> 0, errors |-> 0, error |-> None]

get_state(u) == IF _state_by_user[u] = NoRow THEN _DEFAULT_STATE ELSE _state_by_user[u]

set_syncing(s, total) ==
    [(IF s = NoRow THEN _DEFAULT_STATE ELSE s) EXCEPT
        !.status = "syncing",
        !.message = IF total = 0 THEN "Connecting" ELSE "Processing",
        !.processed = 0, !.total = total, !.created = 0, !.skipped = 0,
        !.errors = 0, !.error = None]

update_progress(s, processed, total, message) ==
    IF s = NoRow THEN s
    ELSE [s EXCEPT !.processed = processed, !.total = total, !.message = message]

set_idle(s, result) ==
    IF s = NoRow THEN s
    ELSE [s EXCEPT !.status = "idle", !.message = "Done",
                   !.processed = result.processed, !.total = result.processed,
                   !.created = result.created, !.skipped = result.skipped,
                   !.errors = result.errors, !.error = result.error]

set_error(s, err) ==
    IF s = NoRow THEN s
    ELSE [s EXCEPT !.status = "idle", !.error = err, !.message = ""]

\* ------------------------------------------------- routers/sync.py, tasks.py

\* what run_sync_with_options hands back to its caller: a result dict
\* (with or without "error") or an exception
RunResults ==
    { [kind |-> "ok", error |-> None, processed |-> n, created |-> c,
       skipped |-> s, errors |-> n - c - s, full_sync |-> f] :
         <<n, c, s>> \in { x \in (0..MaxMsgs) \X (0..MaxMsgs) \X (0..MaxMsgs) :
                              x[2] + x[3] <= x[1] },
         f \in BOOLEAN }
    \cup
    { [kind |-> "ok", error |-> "E", processed |-> 0, created |-> 0,
       skipped |-> 0, errors |-> 0, full_sync |-> f] : f \in BOOLEAN }
    \cup
    { [kind |-> "raise", error |-> "E", processed |-> 0, created |-> 0,
       skipped |-> 0, errors |-> 0, full_sync |-> FALSE] }

FreeTask == [user |-> NoUser, kind |-> "none", pc |-> "free"]
DoneTask == [user |-> NoUser, kind |-> "none", pc |-> "done"]

\* POST /sync-emails: 400 when the credentials are not ready, otherwise the
\* background task is queued and the handler answers "syncing"
sync_emails(u, creds_ready) ==
    /\ creds_ready
    /\ \E t \in TaskIds :
        /\ tasks[t].pc = "free"
        /\ \A t2 \in TaskIds : t2 < t => tasks[t2].pc # "free"
        /\ tasks' = [tasks EXCEPT ![t] = [user |-> u, kind |-> "bg", pc |-> "queued"]]
    /\ UNCHANGED <<sync_state, _state_by_user>>
    /\ UNCHANGED <<pipeVars, fetchVars, otherVars>>

sync_emails_rejected(u, creds_ready) ==
    /\ ~creds_ready
    /\ UNCHANGED coordVars
    /\ UNCHANGED <<pipeVars, fetchVars, otherVars>>

\* a Celery worker picks up app.tasks.run_email_sync for user u
run_email_sync_enqueue(u) ==
    /\ \E t \in TaskIds :
        /\ tasks[t].pc = "free"
        /\ \A t2 \in TaskIds : t2 < t => tasks[t2].pc # "free"
        /\ tasks' = [tasks EXCEPT ![t] = [user |-> u, kind |-> "celery", pc |-> "queued"]]
    /\ UNCHANGED <<sync_state, _state_by_user>>
    /\ UNCHANGED <<pipeVars, fetchVars, otherVars>>

\* _run_sync_task line 42: set_syncing(total=0, user_id)
_run_sync_task_set_syncing(t) ==
    /\ tasks[t].pc = "queued" /\ tasks[t].kind = "bg"
    /\ _state_by_user' = [_state_by_user EXCEPT
                             ![tasks[t].user] = set_syncing(@, 0)]
    /\ tasks' = [tasks EXCEPT ![t].pc = "mem_syncing"]
    /\ UNCHANGED sync_state
    /\ UNCHANGED <<pipeVars, fetchVars, otherVars>>

\* _run_sync_task line 43 / run_email_sync line 37: set_sync_state_syncing
task_set_sync_state_syncing(t) ==
    /\ \/ tasks[t].pc = "mem_syncing" /\ tasks[t].kind = "bg"
       \/ tasks[t].pc = "queued" /\ tasks[t].kind = "celery"
    /\ sync_state' = [sync_state EXCEPT ![tasks[t].user] = set_sync_state_syncing(@)]
    /\ tasks' = [tasks EXCEPT ![t].pc = "running"]
    /\ UNCHANGED _state_by_user
    /\ UNCHANGED <<pipeVars, fetchVars, otherVars>>

\* the on_progress callback of _run_sync_task (lines 38-40)
on_progress(t, processed, total, message) ==
    /\ tasks[t].pc = "running" /\ tasks[t].kind = "bg"
    /\ _state_by_user' = [_state_by_user EXCEPT
                             ![tasks[t].user] = update_progress(@, processed, total, message)]
    /\ sync_state' = [sync_state EXCEPT
                         ![tasks[t].user] = set_sync_progress(@, processed, total, message)]
    /\ UNCHANGED tasks
    /\ UNCHANGED <<pipeVars, fetchVars, otherVars>>

\* run_sync_with_options returns r (or raises); _run_sync_task lines 48-59 and
\* run_email_sync lines 47-56 record the outcome: set_error / set_idle on the
\* in-memory state (background task only), then set_sync_state_error /
\* set_sync_state_idle on the row
task_finish(t, r) ==
    /\ tasks[t].pc = "running"
    /\ _state_by_user' =
         IF tasks[t].kind = "celery" THEN _state_by_user
         ELSE [_state_by_user EXCEPT ![tasks[t].user] =
                  IF r.kind = "raise" \/ r.error # None
                  THEN set_error(@, r.error) ELSE set_idle(@, r)]
    /\ sync_state' = [sync_state EXCEPT ![tasks[t].user] =
             IF r.kind = "raise" \/ r.error # None
             THEN set_sync_state_error(@, r.error)
             ELSE set_sync_state_idle(@, r, t)]
    /\ tasks' = [tasks EXCEPT ![t] = DoneTask]
    /\ UNCHANGED <<pipeVars, fetchVars, otherVars>>

CoordInit ==
    /\ sync_state = [u \in Users |-> NoRow]
    /\ _state_by_user = [u \in Users |-> NoRow]
    /\ tasks = [t \in TaskIds |-> FreeTask]

CoordNext ==
    \/ \E u \in Users : sync_emails(u, TRUE)
    \/ \E u \in Users : sync_emails_rejected(u, FALSE)
    \/ \E u \in Users : run_email_sync_enqueue(u)
    \/ \E t \in TaskIds : _run_sync_task_set_syncing(t)
    \/ \E t \in TaskIds : task_set_sync_state_syncing(t)
    \/ \E t \in TaskIds, p \in 0..MaxMsgs, n \in 0..MaxMsgs :
          p <= n /\ on_progress(t, p, n, "Classifying")
    \/ \E t \in TaskIds, r \in RunResults : task_finish(t, r)

\* the same system driven by clients that issue StartSync for a user only
\* when no run of that user is queued or active
NoRunOf(u) == \A t \in TaskIds : tasks[t].user # u

SerialNext ==
    \/ \E u \in Users : NoRunOf(u) /\ sync_emails(u, TRUE)
    \/ \E u \in Users : sync_emails_rejected(u, FALSE)
    \/ \E u \in Users : NoRunOf(u) /\ run_email_sync_enqueue(u)
    \/ \E t \in TaskIds : _run_sync_task_set_syncing(t)
    \/ \E t \in TaskIds : task_set_sync_state_syncing(t)
    \/ \E t \in TaskIds, p \in 0..MaxMsgs, n \in 0..MaxMsgs :
          p <= n /\ on_progress(t, p, n, "Classifying")
    \/ \E t \in TaskIds, r \in RunResults : task_finish(t, r)


\* ===================================================== ingestion pipeline
\* services/email_processor.py, services/redis_cache.py, models.py
\*
\* The fetch (Gmail list/history calls) is outside this part: an activation
\* starts from its fetched list all_emails.  Every message of the model
\* parses (email_to_parts succeeds), and the database raises no
\* OperationalError.  Sessions follow database.py: autocommit and autoflush
\* off, so an added object reaches the database at the next flush(),
\* begin_nested() or commit(), and a query sees the committed rows plus the
\* rows its own transaction has flushed.

\* longest fetched list (all_emails) of one run
MaxFetch == 2

\* two activations: enough for a concurrent pair and for a run after a run
RunIds == {1, 2}

\* provider message ids; a mailbox message is immutable, so its content hash
\* and Date header are functions of the id.  Equal ids in two users'
\* mailboxes stand for two messages with equal content.
Mids == {"m1", "m2"}

\* email_classifier.content_hash: sha256 of subject|sender|body[:5000]
content_hash(mid) == IF mid = "m1" THEN "h1" ELSE "h2"

\* _parse_received(received_iso), in days
received_date(mid) == IF mid = "m1" THEN 0 ELSE 3

\* datetime.utcnow() at the time of the runs, in days
utcnow == 16

DUPLICATE_DAYS_WINDOW == 14
BATCH_COMMIT_SIZE == 50

\* settings.ingestion_workers / settings.ingestion_batch_size as configured
\* for the modelled deployment (one message per shard, two worker threads)
ingestion_workers == 2
ingestion_batch_size == 1

APPLICATION_LIKE_CLASSES ==
    {"job_application_confirmation", "job_rejection", "interview_assessment",
     "application_followup"}

\* langgraph_pipeline.EMAIL_CATEGORIES: the 14 classes
EMAIL_CATEGORIES ==
    {"job_application_confirmation", "job_rejection", "interview_assessment",
     "application_followup", "recruiter_outreach", "talent_community",
     "linkedin_connection_request", "linkedin_message",
     "linkedin_job_recommendations", "linkedin_profile_activity", "job_alerts",
     "verification_security", "promotional_marketing", "receipts_invoices"}

\* what langgraph_process_email can return for a message: the fields of the
\* state that the pipeline reads.  company_name is the LLM's raw string.
LangGraphStates ==
    { [email_class |-> "job_application_confirmation", company_name |-> c,
       job_title |-> "Eng"] : c \in {"Acme", "Acme Inc"} }
    \cup
    { [email_class |-> "promotional_marketing", company_name |-> None,
       job_title |-> None] }

\* the state classify_and_extract_node returns when the LLM call or the parse
\* of its answer raised (langgraph_pipeline.py lines 505-514)
classify_failed ==
    [email_class |-> "promotional_marketing", company_name |-> None,
     job_title |-> None]

\* what a worker's call of langgraph_process_email does for one item: the
\* state it returns (NoRow: it raised), and whether an exception was raised
\* on the way (inside the node, where it is caught, or out of the call)
WorkerOutcomes ==
    { [st |-> st, raised |-> FALSE] : st \in LangGraphStates }
    \cup { [st |-> classify_failed, raised |-> TRUE],
           [st |-> NoRow, raised |-> TRUE] }

\* x or d
Or(x, d) == IF x = None \/ x = "" THEN d ELSE x

\* str.lower().strip() on the strings of the model
Lower(s) ==
    CASE s = "Acme" -> "acme"
      [] s = "Acme Inc" -> "acme inc"
      [] s = "Unknown" -> "unknown"
      [] s = "Eng" -> "eng"
      [] OTHER -> s

\* email_classifier.normalize_company_name: strips Inc/LLC/Corp/... suffixes
normalize_company_name(name) ==
    IF name = "" \/ name = "Unknown" THEN name
    ELSE IF name = "Acme Inc" THEN "Acme"
    ELSE name

\* ------------------------------------------------------------- storage

\* a row of applications (tbl = "app") or email_logs (tbl = "log"); by and n
\* are the row's identity (inserting activation, ordinal of the insert)
AppRow(u, mid, st) ==
    [tbl |-> "app", user |-> u, mid |-> mid, by |-> 0, n |-> 0,
     company |-> normalize_company_name(Or(st.company_name, "Unknown")),
     title |-> st.job_title, received |-> received_date(mid),
     class |-> IF st.email_class \in EMAIL_CATEGORIES THEN st.email_class
               ELSE "promotional_marketing",
     err |-> FALSE]

LogRow(u, mid, class, err) ==
    [tbl |-> "log", user |-> u, mid |-> mid, by |-> 0, n |-> 0,
     company |-> None, title |-> None, received |-> 0,
     class |-> class, err |-> err]

Key(x) == <<x.tbl, x.user, x.mid>>

SameKey(rows, x) == { y \in rows : Key(y) = Key(x) }

\* the tables without their unique indexes
unique_violation_dropped(rows, x) == FALSE

\* the unique indexes ix_applications_user_gmail (applications) and
\* ux_email_logs_user_gmail (email_logs), both on (user_id, gmail_message_id)
unique_violation(rows, x) == SameKey(rows, x) # {}

\* INSERT the rows of seq in order into rows; IntegrityError at the first
\* row that violates a unique index
RECURSIVE insert_rows(_, _, _)
insert_rows(rows, seq, r) ==
    IF seq = <<>> THEN [ok |-> TRUE, rows |-> rows]
    ELSE LET x == Head(seq)
         IN IF unique_violation(rows, x) THEN [ok |-> FALSE, rows |-> rows]
            ELSE insert_rows(
                   rows \cup {[x EXCEPT !.by = r,
                                        !.n = 1 + Cardinality({y \in SameKey(rows, x) : y.by = r})]},
                   Tail(seq), r)

\* the committed tables as one value
DB ==
    [applications |-> applications, email_logs |-> email_logs,
     classification_cache |-> classification_cache]

\* classification_cache rows as session s sees them: the committed rows, with
\* the session's own uncommitted inserts and updates on top
RowId(c) == <<c.content_hash, c.by>>

cache_view(D, s) ==
    { c \in D.classification_cache :
         \A d \in s.cacheTx : RowId(d) # RowId(c) } \cup s.cacheTx

\* Session.flush(): INSERT the pending objects (autoflush is off, so this
\* happens only at flush(), begin_nested() and commit())
db_flush(D, s, r) ==
    LET committed == D.applications \cup D.email_logs
        res == insert_rows(committed \cup s.flushed, s.unflushed, r)
    IN [ok |-> res.ok,
        s  |-> IF res.ok
               THEN [s EXCEPT !.flushed = res.rows \ committed, !.unflushed = <<>>]
               ELSE s]

\* Session.commit(): flush, then make the transaction's rows durable
db_commit(D, s, r) ==
    LET f == db_flush(D, s, r)
    IN IF ~f.ok THEN [ok |-> FALSE, D |-> D, s |-> s]
       ELSE [ok |-> TRUE,
             D  |-> [applications |-> D.applications \cup
                                        {x \in f.s.flushed : x.tbl = "app"},
                     email_logs |-> D.email_logs \cup
                                        {x \in f.s.flushed : x.tbl = "log"},
                     classification_cache |-> cache_view(D, f.s)],
             s  |-> [f.s EXCEPT !.flushed = {}, !.cacheTx = {}]]

\* Session.rollback(): the whole transaction, pending objects included
db_rollback(s) == [s EXCEPT !.unflushed = <<>>, !.flushed = {}, !.cacheTx = {}]

\* Application rows a query of session s returns
visible_apps(D, s) == { x \in D.applications \cup s.flushed : x.tbl = "app" }

\* ---------------------------------------------------------- redis_cache.py

\* get_cached_classification_redis(content_hash, user_id); NoRow is None
get_cached_classification_redis(h, u) ==
    IF u = NoUser THEN NoRow
    ELSE IF _redis_unavailable THEN NoRow
    ELSE IF \E e \in redis : e.user = u /\ e.content_hash = h
         THEN (CHOOSE e \in redis : e.user = u /\ e.content_hash = h).payload
         ELSE NoRow

\* set_cached_classification_redis(content_hash, user_id, data): the store
\* after the call
set_cached_classification_redis(store, h, u, data) ==
    IF u = NoUser THEN store
    ELSE IF _redis_unavailable THEN store
    ELSE { e \in store : ~(e.user = u /\ e.content_hash = h) }
           \cup { [user |-> u, content_hash |-> h, payload |-> data] }

\* ------------------------------------------------ classification cache (L2)

\* db.query(ClassificationCache).filter(content_hash == h).first(): the rows
\* the query can return (no ORDER BY: any matching row), or NoRow
cache_first(D, s, h) ==
    LET m == { c \in cache_view(D, s) : c.content_hash = h }
    IN IF m = {} THEN {NoRow} ELSE m

\* _get_cached_langgraph_state, given the row c that the L2 query returned.
\* The call site passes no user_id to the L1 functions.
_get_cached_langgraph_state(h, c) ==
    LET redis_cached == get_cached_classification_redis(h, NoUser)
    IN IF redis_cached # NoRow /\ redis_cached.email_class \in EMAIL_CATEGORIES
       THEN redis_cached
       ELSE IF c = NoRow THEN NoRow
       ELSE IF c.payload.email_class \notin EMAIL_CATEGORIES THEN NoRow
       ELSE c.payload

\* the L1 store after _get_cached_langgraph_state
_get_cached_langgraph_state_redis(store, h, c) ==
    LET redis_cached == get_cached_classification_redis(h, NoUser)
    IN IF redis_cached # NoRow /\ redis_cached.email_class \in EMAIL_CATEGORIES
       THEN store
       ELSE IF c = NoRow \/ c.payload.email_class \notin EMAIL_CATEGORIES THEN store
       ELSE set_cached_classification_redis(store, h, NoUser, c.payload)

\* _persist_langgraph_state_to_cache: the session after the upsert (and its
\* flush), given the row `existing` that the lookup by content_hash returned.
\* A new row carries no user_id; writer records on whose behalf it was
\* written.
_persist_langgraph_state_to_cache(s, r, h, state, existing, u) ==
    IF existing # NoRow
    THEN [s EXCEPT !.cacheTx = { d \in @ : RowId(d) # RowId(existing) } \cup
                        { [existing EXCEPT !.payload = state, !.writer = u] }]
    ELSE [s EXCEPT !.cacheTx = @ \cup
                        { [content_hash |-> h, user_id |-> NoUser, payload |-> state,
                           writer |-> u, by |-> r] }]

\* ------------------------------------------------------ DuplicateDetector

\* preload(): one query for the user's recent applications
preload(apps, u) ==
    { <<Lower(a.company), Lower(Or(a.title, ""))>> :
         a \in { x \in apps : /\ x.received >= utcnow - DUPLICATE_DAYS_WINDOW
                              /\ x.company # None /\ x.company # "Unknown"
                              /\ x.user = u } }

is_duplicate(_cache, company_name, job_title) ==
    IF company_name = "" \/ company_name = "Unknown" THEN FALSE
    ELSE LET company_key == Lower(company_name)
             cached_titles == { p[2] : p \in { q \in _cache : q[1] = company_key } }
             title_key == Lower(Or(job_title, ""))
         IN IF cached_titles = {} THEN FALSE
            ELSE IF title_key = "" THEN TRUE
            ELSE title_key \in cached_titles \/ "" \in cached_titles

add_application(_cache, company_name, job_title) ==
    LET company_key == Lower(Or(company_name, ""))
    IN IF company_key = "" \/ company_key = "unknown" THEN _cache
       ELSE _cache \cup { <<company_key, Lower(Or(job_title, ""))>> }

\* _is_duplicate_application: the writer's query
_is_duplicate_application(apps, company_name, job_title, received, u) ==
    IF company_name = "" \/ company_name = "Unknown" THEN FALSE
    ELSE \E a \in apps :
            /\ a.company = company_name
            /\ a.received >= received - DUPLICATE_DAYS_WINDOW
            /\ a.user = u
            /\ (job_title # None => a.title = job_title)

\* _chunk_list(items, n)
RECURSIVE _chunk_list(_, _)
_chunk_list(items, n) ==
    IF items = <<>> THEN <<>>
    ELSE IF Len(items) <= n THEN <<items>>
    ELSE <<SubSeq(items, 1, n)>> \o _chunk_list(SubSeq(items, n + 1, Len(items)), n)

\* ========================================================= gmail_service.py
\* The provider is the environment: what a list or get call answers (a page,
\* a message, an HTTP error after _with_backoff gave up) is chosen by the
\* action that models the call.

\* most queries of one fetch_emails_parallel call, most pages of one history
\* listing
MaxQueries == 2
MaxPages == 2

Queries == 1..MaxQueries

\* ---------------------------------------------------- fetch_emails_parallel

\* the client `service` handed to fetch_emails_parallel; a client made by
\* service_factory for worker q is q
SharedService == 0

\* what fetch_emails(local_service, query) gives fetch_one: the messages of
\* the query, or an exception (a list or get call failed)
QueryOutcomes ==
    { [emails |-> e, error |-> None] :
         e \in UNION { [1..n -> Mids] : n \in 0..MaxFetch } }
    \cup { [emails |-> <<>>, error |-> "E"] }

NoFuture == [emails |-> <<>>, error |-> "pending"]

IdleFetch ==
    [pc |-> "idle", service_factory |-> FALSE,
     worker |-> [q \in Queries |-> "none"],
     local_service |-> [q \in Queries |-> SharedService],
     future |-> [q \in Queries |-> NoFuture],
     all_emails |-> <<>>, seen_ids |-> {}, query_errors |-> <<>>]

\* the loop of lines 400-405 without the seen_ids test
RECURSIVE fuse_unchecked(_, _, _)
fuse_unchecked(all_emails, seen_ids, emails) ==
    IF emails = <<>> THEN [all_emails |-> all_emails, seen_ids |-> seen_ids]
    ELSE fuse_unchecked(Append(all_emails, Head(emails)),
                        seen_ids \cup {Head(emails)}, Tail(emails))

\* lines 400-405: append the messages whose id was not seen yet
RECURSIVE fuse(_, _, _)
fuse(all_emails, seen_ids, emails) ==
    IF emails = <<>> THEN [all_emails |-> all_emails, seen_ids |-> seen_ids]
    ELSE LET msg_id == Head(emails)
         IN IF msg_id \notin seen_ids
            THEN fuse(Append(all_emails, msg_id), seen_ids \cup {msg_id}, Tail(emails))
            ELSE fuse(all_emails, seen_ids, Tail(emails))

\* entry: one future per query is submitted to the pool (max_workers is at
\* least the number of queries at the call site, so all may run together)
fetch_emails_parallel(service_factory) ==
    /\ pfetch.pc = "idle"
    /\ pfetch' = [IdleFetch EXCEPT !.pc = "running",
                                   !.service_factory = service_factory,
                                   !.worker = [q \in Queries |-> "submitted"]]
    /\ UNCHANGED <<coordVars, pipeVars, plan, sync_metadata, hfetch, otherVars>>

\* fetch_one line 376: the worker takes its client
fetch_one_begin(q) ==
    /\ pfetch.pc = "running"
    /\ pfetch.worker[q] = "submitted"
    /\ pfetch' = [pfetch EXCEPT
          !.worker[q] = "fetching",
          !.local_service[q] = IF pfetch.service_factory THEN q ELSE SharedService]
    /\ UNCHANGED <<coordVars, pipeVars, plan, sync_metadata, hfetch, otherVars>>

\* fetch_one lines 377-380: fetch_emails returns or raises
fetch_one_end(q, out) ==
    /\ pfetch.pc = "running"
    /\ pfetch.worker[q] = "fetching"
    /\ pfetch' = [pfetch EXCEPT !.worker[q] = "finished", !.future[q] = out]
    /\ UNCHANGED <<coordVars, pipeVars, plan, sync_metadata, hfetch, otherVars>>

\* one iteration of the as_completed loop (lines 390-410)
as_completed(q) ==
    /\ pfetch.pc = "running"
    /\ pfetch.worker[q] = "finished"
    /\ LET res == pfetch.future[q]
           f == fuse(pfetch.all_emails, pfetch.seen_ids, res.emails)
       IN pfetch' =
            IF res.error # None
            THEN [pfetch EXCEPT !.worker[q] = "consumed",
                                !.query_errors = Append(@, res.error)]
            ELSE [pfetch EXCEPT !.worker[q] = "consumed",
                                !.all_emails = f.all_emails,
                                !.seen_ids = f.seen_ids]
    /\ UNCHANGED <<coordVars, pipeVars, plan, sync_metadata, hfetch, otherVars>>

\* lines 414-417
fetch_emails_parallel_returns ==
    /\ pfetch.pc = "running"
    /\ \A q \in Queries : pfetch.worker[q] = "consumed"
    /\ pfetch' = [pfetch EXCEPT
          !.pc = IF pfetch.query_errors # <<>> /\ pfetch.all_emails = <<>>
                 THEN "raised" ELSE "returned"]
    /\ UNCHANGED <<coordVars, pipeVars, plan, sync_metadata, hfetch, otherVars>>

\* the frame is dropped; the next call starts from a fresh one
fetch_emails_parallel_exit ==
    /\ pfetch.pc \in {"returned", "raised"}
    /\ pfetch' = IdleFetch
    /\ UNCHANGED <<coordVars, pipeVars, plan, sync_metadata, hfetch, otherVars>>

FetchParallelNext ==
    \/ \E sf \in BOOLEAN : fetch_emails_parallel(sf)
    \/ \E q \in Queries : fetch_one_begin(q)
    \/ \E q \in Queries, out \in QueryOutcomes : fetch_one_end(q, out)
    \/ \E q \in Queries : as_completed(q)
    \/ fetch_emails_parallel_returns
    \/ fetch_emails_parallel_exit

\* ------------------------------------------------ fetch_emails_from_history

\* history cursors of the provider
HistoryIds == {"c1", "c2"}

\* a history record: the ids of its messagesAdded and messagesDeleted
Records ==
    { [messagesAdded |-> a, messagesDeleted |-> d] :
         <<a, d>> \in { x \in (SUBSET Mids) \X (SUBSET Mids) : x[1] \cap x[2] = {} } }

\* the answer to one history.list call: a page (at most one record on a page
\* of the model) with the mailbox's history id; nextPageToken is present on
\* every page but the last
Pages ==
    { [history |-> h, historyId |-> c] :
         h \in {<<>>} \cup { <<rec>> : rec \in Records }, c \in HistoryIds }

Histories == UNION { [1..n -> Pages] : n \in 1..MaxPages }

IdleHistory ==
    [pc |-> "idle", pages |-> <<>>, page |-> 0, all_message_ids |-> {},
     new_history_id |-> None, todo |-> {}, emails |-> <<>>, failed |-> {},
     history_too_old |-> FALSE]

\* lines 449-453, for the records of one page
RECURSIVE apply_history(_, _)
apply_history(ids, history) ==
    IF history = <<>> THEN ids
    ELSE apply_history((ids \cup Head(history).messagesAdded)
                          \ Head(history).messagesDeleted,
                       Tail(history))

\* entry (lines 429-433); pages is what the provider will answer, page by page
fetch_emails_from_history(start_history_id, pages) ==
    /\ hfetch.pc = "idle"
    /\ hfetch' = [IdleHistory EXCEPT !.pc = "listing", !.pages = pages, !.page = 1,
                                     !.new_history_id = start_history_id]
    /\ UNCHANGED <<coordVars, pipeVars, plan, sync_metadata, pfetch, otherVars>>

\* one iteration of the page loop (lines 435-462); status is the HTTP status
\* of the list call
list_history_step(status) ==
    /\ hfetch.pc = "listing"
    /\ LET result == hfetch.pages[hfetch.page]
           ids == apply_history(hfetch.all_message_ids, result.history)
       IN hfetch' =
            IF status = 404
            THEN [hfetch EXCEPT !.pc = "returned", !.emails = <<>>,
                                !.new_history_id = None, !.history_too_old = TRUE]
            ELSE IF status # 200
            THEN [hfetch EXCEPT !.pc = "raised"]
            ELSE [hfetch EXCEPT
                     !.all_message_ids = ids,
                     !.new_history_id = result.historyId,
                     !.page = @ + 1,
                     !.todo = IF hfetch.page = Len(hfetch.pages) THEN ids ELSE @,
                     !.pc = IF hfetch.page = Len(hfetch.pages) THEN "getting" ELSE @]
    /\ UNCHANGED <<coordVars, pipeVars, plan, sync_metadata, pfetch, otherVars>>

\* one iteration of the loop of lines 465-472: get_message(mid) answers or
\* raises HttpError; the set is walked in no particular order
get_message_step(mid, ok) ==
    /\ hfetch.pc = "getting"
    /\ mid \in hfetch.todo
    /\ hfetch' = [hfetch EXCEPT
          !.todo = @ \ {mid},
          !.emails = IF ok THEN Append(@, mid) ELSE @,
          !.failed = IF ok THEN @ ELSE @ \cup {mid}]
    /\ UNCHANGED <<coordVars, pipeVars, plan, sync_metadata, pfetch, otherVars>>

\* line 473
fetch_emails_from_history_returns ==
    /\ hfetch.pc = "getting"
    /\ hfetch.todo = {}
    /\ hfetch' = [hfetch EXCEPT !.pc = "returned"]
    /\ UNCHANGED <<coordVars, pipeVars, plan, sync_metadata, pfetch, otherVars>>

HistoryNext ==
    \/ \E c \in HistoryIds, pages \in Histories : fetch_emails_from_history(c, pages)
    \/ \E status \in {200, 404, 500} : list_history_step(status)
    \/ \E mid \in Mids, ok \in BOOLEAN : get_message_step(mid, ok)
    \/ fetch_emails_from_history_returns


\* ============================ run_sync_with_options: what to fetch, Phase 3
\* services/email_processor.py lines 442-562 and 835-866, with the caller's
\* bracket (set_sync_state_syncing before the call, set_sync_state_idle or
\* set_sync_state_error after it).  Phases 1 and 2 are reduced to their
\* outcome here: which of the fetched messages got an Application.  They are
\* modelled in full further down, starting from the fetched list.
\* Dates are day numbers; a timestamp column holds 0 when it is NULL.

gmail_full_sync_days_back == 90

\* day of the n-th run
PlanNow(n) == utcnow + 3 * (n - 1)

\* date strings as the API and the settings carry them: absent (None),
\* whitespace only, YYYY-MM-DD, YYYY/MM/DD
NoDate == [fmt |-> "none", day |-> 0]
Blank == [fmt |-> "blank", day |-> 0]
Dash(d) == [fmt |-> "dash", day |-> d]
Slash(d) == [fmt |-> "slash", day |-> d]

\* _format_date: None for an empty (stripped) value, "-" replaced by "/"
_format_date(value) ==
    IF value.fmt \in {"none", "blank"} THEN NoDate
    ELSE IF value.fmt = "slash" THEN value
    ELSE IF value.fmt = "dash" THEN Slash(value.day)
    ELSE value

\* datetime.strftime("%Y/%m/%d")
strftime(ts) == Slash(ts)

\* lines 484-486
_default_after_date(now) ==
    LET days_back == IF gmail_full_sync_days_back > 1 THEN gmail_full_sync_days_back
                     ELSE 1
    IN strftime(now - days_back)

\* lines 488-512: the "from" date of a full sync.  cfg_after and ignore are
\* settings.gmail_full_sync_after_date and gmail_full_sync_ignore_last_synced,
\* meta the SyncMetadata row last_synced_at (shared by all users)
after_date_val(after_date, cfg_after, ignore, sync_row, meta, now) ==
    LET a1 == IF after_date.fmt # "none" THEN _format_date(after_date) ELSE NoDate
        a2 == IF a1 = NoDate /\ cfg_after.fmt # "none"
              THEN _format_date(cfg_after) ELSE a1
        ts == IF sync_row = NoRow THEN 0
              ELSE IF sync_row.last_full_sync_at # 0 THEN sync_row.last_full_sync_at
              ELSE sync_row.last_synced_at
        a3 == IF a2 = NoDate /\ ~ignore
              THEN (IF ts # 0 THEN strftime(ts)
                    ELSE IF meta # 0 THEN strftime(meta) ELSE NoDate)
              ELSE a2
    IN IF a3 = NoDate THEN _default_after_date(now) ELSE a3

\* line 514
before_date_val(before_date) ==
    IF before_date.fmt # "none" THEN _format_date(before_date) ELSE NoDate

\* lines 515-517: the prefix of every query, as its after: and before: terms
date_prefix(after_val, before_val) == [after |-> after_val, before |-> before_val]

\* auto resolved to incremental whenever the user has a cursor
resolve_mode_cursor_only(mode, has_history, has_apps) ==
    IF mode # "auto" THEN mode
    ELSE IF has_history THEN "incremental" ELSE "full"

\* lines 443-450
resolve_mode(mode, has_history, has_apps) ==
    IF mode # "auto" THEN mode
    ELSE IF has_history /\ has_apps THEN "incremental" ELSE "full"

\* sync_state_db.get_last_history_id
get_last_history_id(row) == IF row = NoRow THEN None ELSE row.last_history_id

\* sync_state_db.set_last_history_id
set_last_history_id(row, history_id, now) ==
    IF row # NoRow
    THEN [row EXCEPT !.last_history_id = history_id, !.last_synced_at = now]
    ELSE [SyncStateRow EXCEPT !.last_history_id = history_id,
                              !.last_synced_at = now, !.status = "idle"]

\* sync_state_db.set_last_full_sync_at
set_last_full_sync_at(row, now) ==
    IF row # NoRow
    THEN [row EXCEPT !.last_full_sync_at = now]
    ELSE [SyncStateRow EXCEPT !.last_full_sync_at = now, !.status = "idle"]

\* lines 839-843: the row after Phase 3
phase3(row, new_history_id, full_sync, now) ==
    LET r1 == IF new_history_id # None
              THEN set_last_history_id(row, new_history_id, now) ELSE row
    IN IF full_sync THEN set_last_full_sync_at(r1, now) ELSE r1

\* fetched lists: a fetch returns no id twice
PlanFetched ==
    { e \in UNION { [1..n -> Mids] : n \in 0..MaxFetch } :
         \A j, k \in DOMAIN e : j # k => e[j] # e[k] }

\* the classification every created Application of this part carries
PlanState ==
    [email_class |-> "job_application_confirmation", company_name |-> "Acme",
     job_title |-> "Eng"]

IdlePlan ==
    [pc |-> "idle", n |-> 0, user |-> NoUser, mode_in |-> "auto", mode |-> "auto",
     after_date |-> NoDate, before_date |-> NoDate, cfg_after |-> NoDate,
     ignore |-> FALSE, last_id |-> None, all_emails |-> <<>>,
     new_history_id |-> None, full_sync |-> FALSE, history_too_old |-> FALSE,
     prefix |-> date_prefix(NoDate, NoDate), profile |-> None, now |-> 0,
     result |-> NoRow]

\* after_date, before_date and the settings are dead once the queries are
\* built (line 535): the frame forgets them
Forget(f) ==
    [f EXCEPT !.after_date = NoDate, !.before_date = NoDate,
              !.cfg_after = NoDate, !.ignore = FALSE]

ErrorResult(e, full) ==
    [kind |-> "ok", error |-> e, processed |-> 0, created |-> 0, skipped |-> 0,
     errors |-> 0, full_sync |-> full]

\* the caller marks the user syncing and calls run_sync_with_options, which
\* resolves the mode (lines 443-452) and gets the client (455-460); on a
\* client error the run returns its error dict and the caller records it
plan_start(u, mode, after_date, before_date, cfg_after, ignore, service_ok) ==
    /\ plan.pc \in {"idle", "returned", "raised"}
    /\ plan.n < Cardinality(RunIds)
    /\ LET row == set_sync_state_syncing(sync_state[u])
           has_history == get_last_history_id(row) # None
           has_apps == \E a \in applications : a.user = u
           m == resolve_mode(mode, has_history, has_apps)
           f == [IdlePlan EXCEPT
                    !.n = plan.n + 1, !.user = u, !.mode_in = mode, !.mode = m,
                    !.after_date = after_date, !.before_date = before_date,
                    !.cfg_after = cfg_after, !.ignore = ignore,
                    !.now = PlanNow(plan.n + 1)]
       IN IF ~service_ok
          THEN /\ plan' = [Forget(f) EXCEPT !.pc = "returned",
                                            !.result = ErrorResult("E", FALSE)]
               /\ sync_state' = [sync_state EXCEPT ![u] = set_sync_state_error(row, "E")]
          ELSE /\ sync_state' = [sync_state EXCEPT ![u] = row]
               /\ plan' =
                    IF m = "incremental" /\ get_last_history_id(row) # None
                    THEN [f EXCEPT !.pc = "fetch_history",
                                   !.last_id = get_last_history_id(row)]
                    ELSE IF m = "incremental"
                    THEN [f EXCEPT !.pc = "fetch_full", !.full_sync = TRUE]
                    ELSE [f EXCEPT !.pc = "fetch_full"]
    /\ UNCHANGED <<_state_by_user, tasks, pipeVars, sync_metadata, pfetch, hfetch, otherVars>>

\* lines 466-482: fetch_emails_from_history answered (emails, new id), or
\* reported the cursor too old, or raised; an empty delta goes on to the full
\* fetch as well (`not all_emails`, line 482)
plan_history(kind, emails, hid) ==
    /\ plan.pc = "fetch_history"
    /\ \/ /\ kind = "ok"
          /\ plan' = IF emails = <<>>
                     THEN [plan EXCEPT !.pc = "fetch_full", !.new_history_id = hid]
                     ELSE [Forget(plan) EXCEPT !.pc = "process", !.all_emails = emails,
                                               !.new_history_id = hid]
          /\ UNCHANGED sync_state
       \/ /\ kind = "too_old" /\ emails = <<>>
          /\ plan' = [plan EXCEPT !.pc = "fetch_full", !.full_sync = TRUE,
                                  !.history_too_old = TRUE]
          /\ UNCHANGED sync_state
       \/ /\ kind = "raise" /\ emails = <<>>
          /\ plan' = [Forget(plan) EXCEPT !.pc = "raised"]
          /\ sync_state' = [sync_state EXCEPT
                               ![plan.user] = set_sync_state_error(@, "E")]
    /\ UNCHANGED <<_state_by_user, tasks, pipeVars, sync_metadata, pfetch, hfetch, otherVars>>

\* lines 482-558: the date window, the parallel fetch (fetched, or ok = FALSE
\* when fetch_emails_parallel raised) and get_profile_history_id (profile,
\* None when the call failed)
plan_full_fetch(ok, fetched, profile) ==
    /\ plan.pc = "fetch_full"
    /\ LET u == plan.user
           prefix == date_prefix(
                        after_date_val(plan.after_date, plan.cfg_after, plan.ignore,
                                       sync_state[u], sync_metadata, plan.now),
                        before_date_val(plan.before_date))
       IN IF ~ok
          THEN /\ fetched = <<>>
               /\ plan' = [Forget(plan) EXCEPT !.pc = "returned", !.prefix = prefix,
                                               !.result = ErrorResult("E", TRUE)]
               /\ sync_state' = [sync_state EXCEPT ![u] = set_sync_state_error(@, "E")]
          ELSE /\ plan' = [Forget(plan) EXCEPT
                              !.pc = "process", !.prefix = prefix,
                              !.all_emails = fetched, !.profile = profile,
                              !.new_history_id = IF @ = None THEN profile ELSE @,
                              !.full_sync = TRUE]
               /\ UNCHANGED sync_state
    /\ UNCHANGED <<_state_by_user, tasks, pipeVars, sync_metadata, pfetch, hfetch, otherVars>>

\* Phases 1 and 2 created Applications for the messages of `created` and
\* skipped the others (or raised: ok = FALSE); Phase 3 (lines 835-850) and the
\* return; the caller records the result
plan_finish(ok, created) ==
    /\ plan.pc = "process"
    /\ LET u == plan.user
           fresh == { plan.all_emails[k] : k \in DOMAIN plan.all_emails } \
                       { a.mid : a \in { x \in applications : x.user = u } }
           result == [kind |-> "ok", error |-> None,
                      processed |-> Len(plan.all_emails),
                      created |-> Cardinality(created),
                      skipped |-> Len(plan.all_emails) - Cardinality(created),
                      errors |-> 0, full_sync |-> plan.full_sync]
       IN IF ~ok
          THEN /\ created = {}
               /\ plan' = [plan EXCEPT !.pc = "raised",
                                       !.prefix = date_prefix(NoDate, NoDate)]
               /\ sync_state' = [sync_state EXCEPT ![u] = set_sync_state_error(@, "E")]
               /\ UNCHANGED <<applications, sync_metadata>>
          ELSE /\ created \subseteq fresh
               /\ applications' = applications \cup
                     { [AppRow(u, mid, PlanState) EXCEPT !.n = 1] : mid \in created }
               /\ sync_metadata' = plan.now
               /\ sync_state' = [sync_state EXCEPT ![u] =
                     set_sync_state_idle(
                        phase3(@, plan.new_history_id, plan.full_sync, plan.now),
                        result, plan.now)]
               /\ plan' = [plan EXCEPT !.pc = "returned", !.result = result,
                                       !.prefix = date_prefix(NoDate, NoDate)]
    /\ UNCHANGED <<_state_by_user, tasks, email_logs, classification_cache, redis,
                   _redis_unavailable, runs, pfetch, hfetch, otherVars>>

PlanDates == {NoDate, Blank, Dash(5)}

PlanNext ==
    \/ \E u \in Users, mode \in {"auto", "incremental", "full"},
          after_date \in PlanDates, before_date \in {NoDate, Dash(30)},
          cfg_after \in {NoDate, Slash(10)}, ignore \in BOOLEAN,
          service_ok \in BOOLEAN :
          /\ plan.n = 0 => u = 1
          /\ plan_start(u, mode, after_date, before_date, cfg_after, ignore, service_ok)
    \/ \E kind \in {"ok", "too_old", "raise"}, emails \in PlanFetched,
          hid \in HistoryIds :
          plan_history(kind, emails, hid)
    \/ \E ok \in BOOLEAN, fetched \in PlanFetched, profile \in HistoryIds \cup {None} :
          plan_full_fetch(ok, fetched, profile)
    \/ \E ok \in BOOLEAN, created \in SUBSET Mids : plan_finish(ok, created)

\* -------------------------------------------------------------------------

FetchIdle ==
    /\ plan = IdlePlan
    /\ sync_metadata = 0
    /\ pfetch = IdleFetch
    /\ hfetch = IdleHistory

\* ======================================================== oauth_state_db.py
\* The OAuth state store and the two callbacks that consume from it.  The
\* store of oauth_state_db.py keeps kind, redirect_url and created_at per
\* token; the user_id keyword that start_gmail_oauth passes has no column to
\* go to and is dropped.

OAUTH_STATE_TTL_SECONDS == 900

KIND_GMAIL == "gmail"
KIND_GOOGLE_LOGIN == "google_login"

\* secrets.token_urlsafe(32): the tokens the model draws
Tokens == {"t1", "t2"}

\* redirect targets a start endpoint is given ("" when none)
Redirects == {"", "/next"}

\* concurrent callback requests
Callbacks == {1, 2}

\* the clock advances in steps of half the TTL, up to two TTLs
clock_step == OAUTH_STATE_TTL_SECONDS \div 2
clock_end == 2 * OAUTH_STATE_TTL_SECONDS

\* oauth_state_set(kind, state_token, redirect_url): the table after the call
oauth_state_set(kind, state_token, redirect_url) ==
    [oauth_state EXCEPT ![state_token] =
        [kind |-> kind, redirect_url |-> redirect_url, created_at |-> clock]]

\* the TTL test of oauth_state_consume (line 46)
expired(row, now) == now - row.created_at > OAUTH_STATE_TTL_SECONDS

\* the payload oauth_state_consume returns for a row (line 50); NoRow is None
payload(row) == [redirect_url |-> row.redirect_url, created_at |-> row.created_at]

\* dict.get on a payload
Get(entry, key) ==
    IF entry = NoRow THEN None
    ELSE IF key \in DOMAIN entry THEN entry[key] ELSE None

IdleCallback ==
    [pc |-> "idle", endpoint |-> "none", token |-> "none", row |-> NoRow,
     entry |-> NoRow, outcome |-> "none"]

\* google_auth_start (auth_router.py): a fresh token of kind google_login
google_auth_start(t, redirect_url) ==
    /\ t \notin issued
    /\ oauth_state' = oauth_state_set(KIND_GOOGLE_LOGIN, t, redirect_url)
    /\ issued' = issued \cup {t}
    /\ UNCHANGED <<consumed, clock, callbacks, token_files, gmail_cb>>
    /\ UNCHANGED <<coordVars, pipeVars, fetchVars, classVars, svcVars>>

\* start_gmail_oauth (gmail_service.py lines 94-112): a fresh token of kind
\* gmail
start_gmail_oauth(t, redirect_url_after) ==
    /\ t \notin issued
    /\ oauth_state' = oauth_state_set(KIND_GMAIL, t, redirect_url_after)
    /\ issued' = issued \cup {t}
    /\ UNCHANGED <<consumed, clock, callbacks, token_files, gmail_cb>>
    /\ UNCHANGED <<coordVars, pipeVars, fetchVars, classVars, svcVars>>

\* time passes
tick ==
    /\ clock < clock_end
    /\ clock' = clock + clock_step
    /\ UNCHANGED <<oauth_state, issued, consumed, callbacks, token_files, gmail_cb>>
    /\ UNCHANGED <<coordVars, pipeVars, fetchVars, classVars, svcVars>>

\* a callback request arrives with a state token and its oauth_state_consume
\* runs the lookup (line 43); without a row the consume returns None and the
\* callback rejects
oauth_state_consume_query(cb, endpoint, t) ==
    /\ callbacks[cb].pc = "idle"
    /\ callbacks' = [callbacks EXCEPT ![cb] =
          IF oauth_state[t] = NoRow
          THEN [IdleCallback EXCEPT !.endpoint = endpoint, !.token = t,
                                    !.outcome = "rejected"]
          ELSE [IdleCallback EXCEPT !.pc = "found", !.endpoint = endpoint,
                                    !.token = t, !.row = oauth_state[t]]]
    /\ UNCHANGED <<oauth_state, issued, consumed, clock, token_files, gmail_cb>>
    /\ UNCHANGED <<coordVars, pipeVars, fetchVars, classVars, svcVars>>

\* what the callback does with the entry its consume returned: the login
\* callback goes on when the entry is truthy (auth_router.py lines 179-182),
\* finish_gmail_oauth when it is truthy and of kind gmail (lines 120-124)
accepts(endpoint, entry) ==
    IF endpoint = KIND_GOOGLE_LOGIN THEN entry # NoRow
    ELSE entry # NoRow /\ Get(entry, "kind") = KIND_GMAIL

\* the rest of oauth_state_consume (lines 46-53): the TTL test, the DELETE of
\* the row that was read (a DELETE that matches no row any more is not an
\* error) and the commit; then the callback's test of the entry
oauth_state_consume_delete(cb) ==
    /\ callbacks[cb].pc = "found"
    /\ LET f == callbacks[cb]
           entry == IF expired(f.row, clock) THEN NoRow ELSE payload(f.row)
       IN /\ oauth_state' = [oauth_state EXCEPT ![f.token] = NoRow]
          /\ consumed' = [consumed EXCEPT ![f.token] =
                             IF entry = NoRow THEN @ ELSE @ + 1]
          /\ callbacks' = [callbacks EXCEPT ![cb] =
                [f EXCEPT !.pc = "idle", !.entry = entry,
                          !.outcome = IF accepts(f.endpoint, entry)
                                      THEN "accepted" ELSE "rejected"]]
    /\ UNCHANGED <<issued, clock, token_files, gmail_cb>>
    /\ UNCHANGED <<coordVars, pipeVars, fetchVars, classVars, svcVars>>

OAuthNext ==
    \/ \E t \in Tokens, r \in Redirects : google_auth_start(t, r)
    \/ \E t \in Tokens, r \in Redirects : start_gmail_oauth(t, r)
    \/ tick
    \/ \E cb \in Callbacks, e \in {KIND_GMAIL, KIND_GOOGLE_LOGIN}, t \in Tokens :
          oauth_state_consume_query(cb, e, t)
    \/ \E cb \in Callbacks : oauth_state_consume_delete(cb)

\* ------------------------------------------- gmail_service.finish_gmail_oauth

NoFile == "none"

\* settings.token_path, and TOKEN_DIR/token_<user_id>.pickle
SharedTokenPath == "token.pickle"
UserTokenPath(u) == IF u = 1 THEN "token_1.pickle" ELSE "token_2.pickle"
TokenPaths == {SharedTokenPath} \cup { UserTokenPath(u) : u \in Users }

\* settings.cors_origins[0], the redirect when the state stored none
DefaultRedirect == "http://localhost:3000"

\* what finish_gmail_oauth can get from oauth_state_consume when the store
\* keeps the user binding (the payloads of the callback's tests): None, or a
\* dict with kind, user_id (NoUser: None) and redirect_url
Entries ==
    {NoRow} \cup
    [kind : {KIND_GMAIL, KIND_GOOGLE_LOGIN}, user_id : Users \cup {NoUser},
     redirect_url : Redirects]

\* authorization codes; the credentials Google issues for code c are c
Codes == {"code1", "code2"}

\* _token_path_for_user(user_id) (lines 38-51)
_token_path_for_user(user_id, token_dir) ==
    IF token_dir /\ user_id = NoUser THEN [raised |-> TRUE, path |-> NoFile]
    ELSE IF user_id # NoUser /\ token_dir
    THEN [raised |-> FALSE, path |-> UserTokenPath(user_id)]
    ELSE [raised |-> FALSE, path |-> SharedTokenPath]

\* finish_gmail_oauth without the test of lines 127-129
finish_gmail_oauth_unbound(entry, token_dir, exchanged) ==
    LET user_id == Get(entry, "user_id")
        redirect_url == Or(Get(entry, "redirect_url"), DefaultRedirect)
    IN IF entry = NoRow \/ Get(entry, "kind") # KIND_GMAIL
       THEN [raised |-> TRUE, path |-> NoFile, redirect_url |-> None]
       ELSE IF ~exchanged
       THEN [raised |-> TRUE, path |-> NoFile, redirect_url |-> None]
       ELSE [raised |-> FALSE,
             path |-> IF user_id # NoUser /\ token_dir THEN UserTokenPath(user_id)
                      ELSE SharedTokenPath,
             redirect_url |-> redirect_url]

\* finish_gmail_oauth (lines 115-145) for the entry its consume returned:
\* whether it raised, the token file it wrote (NoFile: none) and the redirect
\* it returned.  exchanged: flow.fetch_token succeeded
finish_gmail_oauth(entry, token_dir, exchanged) ==
    LET user_id == Get(entry, "user_id")
        redirect_url == Or(Get(entry, "redirect_url"), DefaultRedirect)
        token_path == IF user_id # NoUser THEN _token_path_for_user(user_id, token_dir)
                      ELSE [raised |-> FALSE, path |-> SharedTokenPath]
    IN IF entry = NoRow \/ Get(entry, "kind") # KIND_GMAIL
       THEN [raised |-> TRUE, path |-> NoFile, redirect_url |-> None]
       ELSE IF token_dir /\ user_id = NoUser
       THEN [raised |-> TRUE, path |-> NoFile, redirect_url |-> None]
       ELSE IF token_path.raised \/ ~exchanged
       THEN [raised |-> TRUE, path |-> NoFile, redirect_url |-> None]
       ELSE [raised |-> FALSE, path |-> token_path.path, redirect_url |-> redirect_url]

IdleGmailCallback ==
    [entry |-> NoRow, token_dir |-> FALSE, code |-> "none", raised |-> FALSE,
     path |-> NoFile, redirect_url |-> None]

\* GET /gmail/callback: finish_gmail_oauth(code, state), with the entry that
\* the consume of `state` returned
gmail_callback(entry, token_dir, code, exchanged) ==
    /\ LET out == finish_gmail_oauth(entry, token_dir, exchanged)
       IN /\ token_files' = IF out.path = NoFile THEN token_files
                            ELSE [token_files EXCEPT ![out.path] = code]
          /\ gmail_cb' = [entry |-> entry, token_dir |-> token_dir, code |-> code,
                          raised |-> out.raised, path |-> out.path,
                          redirect_url |-> out.redirect_url]
    /\ UNCHANGED <<oauth_state, issued, consumed, clock, callbacks>>
    /\ UNCHANGED <<coordVars, pipeVars, fetchVars, classVars, svcVars>>

GmailCallbackNext ==
    \E entry \in Entries, token_dir \in BOOLEAN, code \in Codes, exchanged \in BOOLEAN :
        gmail_callback(entry, token_dir, code, exchanged)

AuthIdle ==
    /\ oauth_state = [t \in Tokens |-> NoRow]
    /\ issued = {}
    /\ consumed = [t \in Tokens |-> 0]
    /\ clock = 0
    /\ callbacks = [cb \in Callbacks |-> IdleCallback]
    /\ token_files = [p \in TokenPaths |-> NoFile]
    /\ gmail_cb = IdleGmailCallback


\* ===================================================== langgraph_pipeline.py
\* The classification graph and the writers of an Application's
\* classification columns.  Confidences are in hundredths (0.65 is 65).

\* the closed set of stages (models.py, application_stage)
Stages ==
    {"Applied", "Screening", "Interview", "Offer", "Rejected", "Pipeline",
     "Contacted", "Other"}

\* what assign_stage_node reads of a message: whether subject+body holds one
\* of its screening phrases, one of its offer phrases
Texts == [screening : BOOLEAN, offer : BOOLEAN]

\* one parsed LLM answer: its email_class (the model draws members of
\* EMAIL_CATEGORIES, a class outside of it, and none) and its confidence
\* (conf: a number, the key missing, or a value float() rejects)
Answer(email_class, confidence) ==
    [email_class |-> email_class, conf |-> "number", confidence |-> confidence]
NoConfidence == [email_class |-> "", conf |-> "missing", confidence |-> 0]
BadConfidence == [email_class |-> "job_rejection", conf |-> "invalid", confidence |-> 0]

\* the answers to the single-message prompt; NoRow: _call_llm raised
LLMResponses ==
    {Answer("job_rejection", 64), Answer("interview_assessment", 65),
     Answer("job_offer", 65), NoConfidence, BadConfidence, NoRow}

\* dict.get(key, default)
GetDefault(entry, key, default) ==
    IF key \in DOMAIN entry THEN entry[key] ELSE default

\* the class test without its replacement
coerce_kept(email_class) == email_class

\* the class test shared by the nodes and the writers
coerce(email_class) ==
    IF email_class \in EMAIL_CATEGORIES THEN email_class ELSE "promotional_marketing"

\* classify_and_extract_node (lines 469-514): the fields of the state it
\* returns; errors: the list is not empty
classify_and_extract_node(resp) ==
    IF resp = NoRow \/ resp.conf = "invalid"
    THEN [email_class |-> "promotional_marketing", confidence |-> 0, errors |-> TRUE]
    ELSE [email_class |-> coerce(resp.email_class),
          confidence |-> IF resp.conf = "missing" THEN 50 ELSE resp.confidence,
          errors |-> FALSE]

\* STAGE_MAPPING.get(email_class, "Other")
STAGE_MAPPING(email_class) ==
    CASE email_class \in {"job_application_confirmation", "application_followup"} -> "Applied"
      [] email_class = "interview_assessment" -> "Interview"
      [] email_class = "recruiter_outreach" -> "Contacted"
      [] email_class = "job_rejection" -> "Rejected"
      [] email_class = "talent_community" -> "Pipeline"
      [] OTHER -> "Other"

\* assign_stage_node: the application_stage it returns
assign_stage_node(email_class, text) ==
    LET is_screening == email_class = "interview_assessment" /\ text.screening
    IN IF text.offer THEN "Offer"
       ELSE IF is_screening THEN "Screening"
       ELSE STAGE_MAPPING(email_class)

\* process_email: classify_and_extract -> match_resume -> assign_stage
process_email(text, resp) ==
    LET s == classify_and_extract_node(resp)
    IN [email_class |-> s.email_class, confidence |-> s.confidence, errors |-> s.errors,
        application_stage |-> assign_stage_node(s.email_class, text)]

\* _status_from_stage, and the same chain in _create_application_and_log
_status_from_stage(stage) ==
    IF stage = "Rejected" THEN "REJECTED"
    ELSE IF stage \in {"Interview", "Screening"} THEN "INTERVIEWING"
    ELSE IF stage = "Offer" THEN "OFFER"
    ELSE "APPLIED"

\* _create_application_and_log: the classification columns of the row it adds
_create_application_and_log(structured, text) ==
    LET application_stage == Or(Get(structured, "application_stage"), "Other")
    IN [category |-> coerce(Or(Get(structured, "email_class"), "")),
        application_stage |-> application_stage,
        status |-> _status_from_stage(application_stage),
        confidence |-> structured.confidence,
        needs_review |-> GetDefault(structured, "needs_review", FALSE),
        text |-> text]

\* the raw_json that classification_service.persist_llm_result_to_cache
\* stores: the legacy result, with a category and no email_class
legacy_raw_json == [category |-> "REJECTION", confidence |-> 90]

\* _get_cached_langgraph_state on the row's raw_json (lines 269-284)
cached_state(raw_json) ==
    IF raw_json = NoRow THEN NoRow
    ELSE IF Or(Get(raw_json, "email_class"), "") \notin EMAIL_CATEGORIES THEN NoRow
    ELSE raw_json

\* Application ids; the messages they were made from carry the same content
AppIds == {1, 2}

\* an e-mail arrives: the content of the messages
email_arrives(text) ==
    /\ mail = NoRow
    /\ mail' = text
    /\ UNCHANGED <<app, state_cache, lg_call>>
    /\ UNCHANGED <<coordVars, pipeVars, fetchVars, authVars, svcVars>>

\* persist_llm_result_to_cache: the legacy classifier caches its result for
\* the content
persist_llm_result_to_cache ==
    /\ mail # NoRow
    /\ state_cache' = legacy_raw_json
    /\ UNCHANGED <<app, mail, lg_call>>
    /\ UNCHANGED <<coordVars, pipeVars, fetchVars, authVars, svcVars>>

\* run_sync_with_options for one new message: Phase 1 stores it from the
\* cached state; on a miss the worker classifies it and the writer caches the
\* state and stores the message.  dup: the duplicate test skipped the message
ingest(a, resp, dup) ==
    /\ mail # NoRow
    /\ app[a] = NoRow
    /\ LET cached == cached_state(state_cache)
           structured == IF cached # NoRow THEN cached ELSE process_email(mail, resp)
           skip == dup /\ structured.email_class \in APPLICATION_LIKE_CLASSES
       IN /\ state_cache' = IF cached # NoRow THEN state_cache ELSE structured
          /\ app' = IF skip THEN app
                    ELSE [app EXCEPT ![a] = _create_application_and_log(structured, mail)]
    /\ UNCHANGED <<mail, lg_call>>
    /\ UNCHANGED <<coordVars, pipeVars, fetchVars, authVars, svcVars>>

\* the answers to the batch prompt, one per message
BatchItems ==
    {Answer("job_rejection", 59), Answer("job_rejection", 60),
     Answer("job_offer", 59), NoConfidence, BadConfidence}

confidence_threshold == 60

CRITICAL_CATEGORIES ==
    {"job_rejection", "interview_assessment", "job_application_confirmation"}

\* float(llm_result.get("confidence", 0.5)) raises on this item
float_raises(llm_result) == llm_result.conf = "invalid"

\* process_emails_batch, lines 961-971: the item's class and confidence, and
\* whether the message goes to process_email instead
batch_class(llm_result) == coerce(llm_result.email_class)
batch_confidence(llm_result) ==
    IF llm_result.conf = "missing" THEN 50 ELSE llm_result.confidence
reprocess_individually(llm_result) ==
    /\ batch_confidence(llm_result) < confidence_threshold
    /\ batch_class(llm_result) \in CRITICAL_CATEGORIES

\* process_emails_batch, lines 974-1006: the state built from a batch item
batch_state(text, llm_result) ==
    [email_class |-> batch_class(llm_result),
     confidence |-> batch_confidence(llm_result), errors |-> FALSE,
     application_stage |-> assign_stage_node(batch_class(llm_result), text)]

\* the states langgraph_process_batch can return for a message of content
\* text: from process_email (batch size 1, a low-confidence critical item, a
\* malformed batch answer) and, in a batch of several, from a batch item
states_of(text, several) ==
    { process_email(text, resp) : resp \in LLMResponses }
    \cup IF several
         THEN { batch_state(text, i) :
                  i \in { j \in BatchItems : ~float_raises(j) /\ ~reprocess_individually(j) } }
         ELSE {}

\* run_reprocess_applications, lines 153-203: the row after the update from r
reprocessed(row, r) ==
    LET email_class == Or(Get(r, "email_class"), "")
        stage == Or(Or(Get(r, "application_stage"), row.application_stage), "Other")
    IN [row EXCEPT !.category = IF email_class # "" THEN email_class ELSE @,
                   !.confidence = r.confidence,
                   !.application_stage = stage,
                   !.needs_review = GetDefault(r, "needs_review", FALSE),
                   !.status = _status_from_stage(stage)]

\* run_reprocess_applications on the applications S that its query selects.
\* raised: langgraph_process_batch raised, and the batch counts as errors.
\* (The call of _persist_langgraph_state_to_cache passes one argument too
\* many and raises inside its try: the cache is left alone.)
run_reprocess_applications(S, only_needs_review, dry_run, raised) ==
    /\ S # {}
    /\ \A a \in S : app[a] # NoRow /\ (only_needs_review => app[a].needs_review)
    /\ raised => Cardinality(S) > 1
    /\ IF raised \/ dry_run THEN app' = app
       ELSE LET st == [a \in S |-> states_of(app[a].text, Cardinality(S) > 1)]
            IN \E results \in [S -> UNION { st[a] : a \in S }] :
                  /\ \A a \in S : results[a] \in st[a]
                  /\ app' = [a \in AppIds |-> IF a \in S THEN reprocessed(app[a], results[a])
                                              ELSE app[a]]
    /\ UNCHANGED <<state_cache, mail, lg_call>>
    /\ UNCHANGED <<coordVars, pipeVars, fetchVars, authVars, svcVars>>

\* POST /langgraph/reprocess/{application_id} (lines 202-238): the row after
\* the update from result
reprocess_application(row, result) ==
    [row EXCEPT !.category = GetDefault(result, "email_class", @),
                !.confidence = result.confidence,
                !.application_stage = GetDefault(result, "application_stage", "Other")]

reprocess_application_endpoint(a, resp) ==
    /\ app[a] # NoRow
    /\ app' = [app EXCEPT ![a] = reprocess_application(@, process_email(@.text, resp))]
    /\ UNCHANGED <<state_cache, mail, lg_call>>
    /\ UNCHANGED <<coordVars, pipeVars, fetchVars, authVars, svcVars>>

ClassifyNext ==
    \/ \E text \in Texts : email_arrives(text)
    \/ persist_llm_result_to_cache
    \/ \E a \in AppIds, resp \in LLMResponses, dup \in BOOLEAN : ingest(a, resp, dup)
    \/ \E S \in SUBSET AppIds, only_needs_review \in BOOLEAN, dry_run \in BOOLEAN,
          raised \in BOOLEAN :
          run_reprocess_applications(S, only_needs_review, dry_run, raised)
    \/ \E a \in AppIds, resp \in LLMResponses : reprocess_application_endpoint(a, resp)


\* ============================================================== rule guards
\* The guards of the classification graph (applied to the LLM's class before
\* the stage is assigned), and email_classifier.apply_category_overrides, the
\* guard of the category classifier.

\* what the graph's guards read of a message: whether the normalized
\* subject+body matches a rejection phrase, a conditional phrase, a
\* concrete-invitation phrase
GuardTexts == [rejection : BOOLEAN, conditional : BOOLEAN, invitation : BOOLEAN]

\* first guard: rejection phrases turn a confirmation or a talent-community
\* class into job_rejection
rejection_guard(email_class, text) ==
    IF text.rejection /\ email_class \in {"job_application_confirmation", "talent_community"}
    THEN "job_rejection"
    ELSE email_class

\* second guard: conditional phrases without a concrete invitation turn
\* interview_assessment into job_application_confirmation
conditional_guard(email_class, text) ==
    IF email_class = "interview_assessment" /\ text.conditional /\ ~text.invitation
    THEN "job_application_confirmation"
    ELSE email_class

\* the guards in the opposite order
rule_guards_reversed(email_class, text) ==
    rejection_guard(conditional_guard(email_class, text), text)

\* the guards, in their order
rule_guards(email_class, text) ==
    conditional_guard(rejection_guard(email_class, text), text)

\* email_classifier.CATEGORIES
CATEGORIES ==
    {"REJECTION", "INTERVIEW_REQUEST", "SCREENING_REQUEST", "ASSESSMENT",
     "RECRUITER_OUTREACH", "APPLICATION_RECEIVED", "OFFER", "OTHER"}

\* what _rule_based_category and apply_category_overrides read of a message:
\* which phrase lists match its normalized text.  conditional: the conditional
\* phrases match subject+body; conditional_sender: they match only once the
\* sender is appended
OverrideTexts ==
    [offer : BOOLEAN, rejection : BOOLEAN, assessment : BOOLEAN, screening : BOOLEAN,
     interview : BOOLEAN, received : BOOLEAN, conditional : BOOLEAN,
     conditional_sender : BOOLEAN, recruiter : BOOLEAN]

\* _has_conditional_interview_language on subject+body+sender
conditional_full(text) == text.conditional \/ text.conditional_sender

\* _rule_based_category (None: no rule is sure)
_rule_based_category(text) ==
    IF text.offer THEN "OFFER"
    ELSE IF text.rejection THEN "REJECTION"
    ELSE IF text.assessment THEN "ASSESSMENT"
    ELSE IF text.screening THEN "SCREENING_REQUEST"
    ELSE IF text.interview THEN "INTERVIEW_REQUEST"
    ELSE IF text.received \/ conditional_full(text) THEN "APPLICATION_RECEIVED"
    ELSE IF text.recruiter THEN "RECRUITER_OUTREACH"
    ELSE None

\* apply_category_overrides where a rule only supersedes an OTHER
apply_category_overrides_other_only(result, text) ==
    LET rule_category == _rule_based_category(text)
    IN IF result = NoRow THEN result
       ELSE IF rule_category # None /\ result.category = "OTHER"
       THEN [result EXCEPT !.category = rule_category]
       ELSE IF result.category \in {"INTERVIEW_REQUEST", "SCREENING_REQUEST"}
               /\ text.conditional
       THEN [result EXCEPT !.category = "APPLICATION_RECEIVED"]
       ELSE result

\* apply_category_overrides(result, subject, body, sender); NoRow: no result
apply_category_overrides(result, text) ==
    LET rule_category == _rule_based_category(text)
    IN IF result = NoRow THEN result
       ELSE IF rule_category # None
       THEN [result EXCEPT !.category = rule_category]
       ELSE IF result.category \in {"INTERVIEW_REQUEST", "SCREENING_REQUEST"}
               /\ text.conditional
       THEN [result EXCEPT !.category = "APPLICATION_RECEIVED"]
       ELSE result

\* the graph guards a class, and guards the guarded class again
guard_class(email_class, text) ==
    /\ lg_call = NoRow
    /\ lg_call' = [fn |-> "rule_guards", email_class |-> email_class, text |-> text,
                   once |-> rule_guards(email_class, text),
                   twice |-> rule_guards(rule_guards(email_class, text), text)]
    /\ UNCHANGED <<app, state_cache, mail>>
    /\ UNCHANGED <<coordVars, pipeVars, fetchVars, authVars, svcVars>>

\* classification_service.classify_and_cache: the overrides are applied to the
\* LLM's result, which is cached, and again to the cached result when the
\* content is classified the next time (line 59)
classify_and_cache(result, text) ==
    /\ lg_call = NoRow
    /\ lg_call' = [fn |-> "apply_category_overrides", result |-> result, text |-> text,
                   once |-> apply_category_overrides(result, text),
                   twice |-> apply_category_overrides(
                                 apply_category_overrides(result, text), text)]
    /\ UNCHANGED <<app, state_cache, mail>>
    /\ UNCHANGED <<coordVars, pipeVars, fetchVars, authVars, svcVars>>

GuardsNext ==
    \/ \E email_class \in EMAIL_CATEGORIES, text \in GuardTexts :
          guard_class(email_class, text)
    \/ \E result \in {NoRow} \cup [category : CATEGORIES], text \in OverrideTexts :
          classify_and_cache(result, text)

\* ======================================================= process_emails_batch

MaxEmails == 3

\* an element of the results array that is no JSON object
NotADict == [email_class |-> "", conf |-> "notdict", confidence |-> 0]

\* llm_result.get(...) or float(...) raises on this element (lines 961, 965)
item_raises(llm_result) == llm_result.conf = "notdict" \/ float_raises(llm_result)

\* the elements the model draws for a results array
BatchAnswers == BatchItems \cup {NotADict}

\* what the LLM does with the prompt for a batch of len messages: the call or
\* the parse raises, or `results` is no list (parsed FALSE); a list of len
\* elements; a list that is one element short
RawBatches(len) ==
    { [parsed |-> FALSE, arr |-> <<>>] }
    \cup { [parsed |-> TRUE, arr |-> a] :
               a \in [1..len -> BatchAnswers] \cup [1..(len - 1) -> BatchAnswers] }

\* _process_batch_llm (lines 902-914): the array, or [] on any failure
_process_batch_llm(raw, len) ==
    IF ~raw.parsed THEN <<>>
    ELSE IF Len(raw.arr) # len THEN <<>>
    ELSE raw.arr

\* the answers to the single-message prompt that the model draws here
SingleResponses == {Answer("job_rejection", 64), NoRow}

\* the messages of the texts without screening or offer phrases
plain == [screening |-> FALSE, offer |-> FALSE]

\* range(0, len(emails), batch_size): the batches, numbered from 1; the batch
\* of message i and the messages of batch k
batch_numbers(n, batch_size) == 1..((n + batch_size - 1) \div batch_size)
batch_of(i, batch_size) == ((i - 1) \div batch_size) + 1
members(k, n, batch_size) ==
    { i \in 1..n : batch_of(i, batch_size) = k }
first(k, batch_size) == (k - 1) * batch_size + 1

\* the result for message i that process_email gives, with its email_id
single_result(i, resp) ==
    [email_id |-> i] @@ process_email(plain, resp)

\* process_emails_batch(emails, batch_size) for n messages (email ids 1..n),
\* the LLM answering raw[k] to the prompt of batch k and single[i] to the
\* prompt for message i alone: whether it raised, the list it returned, and
\* the messages it gave to process_email
process_emails_batch(n, batch_size, raw, single) ==
    LET arr(k) == _process_batch_llm(raw[k], Cardinality(members(k, n, batch_size)))
        item(i) == arr(batch_of(i, batch_size))[i - first(batch_of(i, batch_size), batch_size) + 1]
        batched(i) == batch_size > 1 /\ arr(batch_of(i, batch_size)) # <<>>
        individually == { i \in 1..n : ~batched(i) \/ reprocess_individually(item(i)) }
    IN IF \E i \in 1..n : batched(i) /\ item_raises(item(i))
       THEN [raised |-> TRUE, results |-> <<>>, individually |-> {}]
       ELSE [raised |-> FALSE,
             results |-> [i \in 1..n |->
                            IF i \in individually THEN single_result(i, single[i])
                            ELSE [email_id |-> i] @@ batch_state(plain, item(i))],
             individually |-> individually]

\* a caller passes n messages to process_emails_batch
langgraph_process_batch(n, batch_size, raw, single) ==
    /\ lg_call = NoRow
    /\ lg_call' = [fn |-> "process_emails_batch", n |-> n, batch_size |-> batch_size,
                   raw |-> raw, single |-> single,
                   out |-> process_emails_batch(n, batch_size, raw, single)]
    /\ UNCHANGED <<app, state_cache, mail>>
    /\ UNCHANGED <<coordVars, pipeVars, fetchVars, authVars, svcVars>>

\* with a batch size of 1 no batch prompt is sent
BatchNext ==
    /\ lg_call = NoRow
    /\ \E n \in 0..MaxEmails, batch_size \in 1..2 :
           \E raw \in IF batch_size = 1
                       THEN { [k \in batch_numbers(n, batch_size) |->
                                  [parsed |-> FALSE, arr |-> <<>>]] }
                       ELSE [batch_numbers(n, batch_size) ->
                                RawBatches(1) \cup RawBatches(batch_size)],
              single \in [1..n -> SingleResponses] :
               /\ \A k \in batch_numbers(n, batch_size) :
                     raw[k] \in RawBatches(Cardinality(members(k, n, batch_size)))
               /\ langgraph_process_batch(n, batch_size, raw, single)

ClassIdle ==
    /\ app = [a \in AppIds |-> NoRow]
    /\ state_cache = NoRow
    /\ mail = NoRow
    /\ lg_call = NoRow


\* ============================================== classification_service.py
\* persist_llm_result_to_cache called with commit=False inside a caller's
\* transaction.  In this part the rows of classification_cache are the
\* user-scoped rows [user_id, content_hash, category] that this function
\* writes, under the unique index ix_classification_cache_user_hash.

\* database Sessions (one per caller)
Sessions == {1, 2}

\* result["category"] of the legacy classifier
LegacyResults == {"REJECTION", "OTHER"}

\* content hashes of the messages: one content, held by every user
Hashes == { content_hash("m1") }

CacheRow(user_id, h, category) ==
    [user_id |-> user_id, content_hash |-> h, category |-> category]

CacheKey(c) == <<c.user_id, c.content_hash>>

\* the frame of a Session: where its call of persist_llm_result_to_cache is,
\* the call's arguments, whether a new row waits for the flush (pending), how
\* many rows its transaction flushed before the call (work), the cache rows
\* its transaction holds uncommitted (rows), and how the call ended.  The
\* arguments are the call's locals: they are gone when it returns.
IdleTx ==
    [pc |-> "idle", user_id |-> NoUser, h |-> "none", category |-> "none",
     pending |-> FALSE, work |-> 0, rows |-> {}, outcome |-> "none"]

\* the rows a query of Session s returns
tx_view(s) ==
    { c \in classification_cache :
         \A d \in cache_tx[s].rows : CacheKey(d) # CacheKey(c) } \cup cache_tx[s].rows

\* the row with existing's key replaced by one of category `category`
update_in_place(rows, existing, category) ==
    { d \in rows : CacheKey(d) # CacheKey(existing) }
       \cup { [existing EXCEPT !.category = category] }

\* the caller's own work before the call: _apply_result_to_application on an
\* Application of the batch (scripts/reclassify_emails.py)
_apply_result_to_application(s) ==
    /\ cache_tx[s].pc = "idle"
    /\ cache_tx[s].work = 0
    /\ cache_tx' = [cache_tx EXCEPT ![s].work = 1]
    /\ UNCHANGED notCacheTx
    /\ UNCHANGED <<coordVars, pipeVars, fetchVars, authVars, classVars>>

\* persist_llm_result_to_cache up to its flush (lines 119-176): without a
\* user_id nothing is written; else the row of (user_id, h) is looked up and
\* updated, or a new row is added to the Session
persist_llm_result_to_cache_upsert(s, user_id, h, category) ==
    /\ cache_tx[s].pc = "idle"
    /\ LET f == [cache_tx[s] EXCEPT !.user_id = user_id, !.h = h,
                                    !.category = category]
           existing == { c \in tx_view(s) : CacheKey(c) = <<user_id, h>> }
       IN cache_tx' = [cache_tx EXCEPT ![s] =
             IF user_id = NoUser THEN [cache_tx[s] EXCEPT !.outcome = "not cached"]
             ELSE IF existing # {}
             THEN [f EXCEPT !.pc = "flush", !.outcome = "none",
                            !.rows = update_in_place(@, CHOOSE c \in existing : TRUE,
                                                     category)]
             ELSE [f EXCEPT !.pc = "flush", !.outcome = "none", !.pending = TRUE]]
    /\ UNCHANGED notCacheTx
    /\ UNCHANGED <<coordVars, pipeVars, fetchVars, authVars, classVars>>

\* the INSERT of Session s waits for the other Session's uncommitted row of
\* the same key
tx_blocked(s) ==
    /\ cache_tx[s].pending
    /\ \E s2 \in Sessions \ {s} : \E d \in cache_tx[s2].rows :
          CacheKey(d) = <<cache_tx[s].user_id, cache_tx[s].h>>

\* Session.rollback(): the whole transaction
rollback(f) == [f EXCEPT !.pending = FALSE, !.work = 0, !.rows = {}]

\* the flush of persist_llm_result_to_cache and its IntegrityError handler
\* (lines 178-202); commit=False, the caller commits
persist_llm_result_to_cache_flush(s) ==
    /\ cache_tx[s].pc = "flush"
    /\ ~tx_blocked(s)
    /\ LET f == cache_tx[s]
           new == CacheRow(f.user_id, f.h, f.category)
           taken == { c \in classification_cache : CacheKey(c) = CacheKey(new) }
           g == rollback(f)
           returned(x, outcome) ==
               [x EXCEPT !.pc = "idle", !.outcome = outcome, !.pending = FALSE,
                         !.user_id = NoUser, !.h = "none", !.category = "none"]
       IN cache_tx' = [cache_tx EXCEPT ![s] =
             IF ~f.pending THEN returned(f, "updated")
             ELSE IF taken = {}
             THEN returned([f EXCEPT !.rows = @ \cup {new}], "inserted")
             ELSE returned([g EXCEPT !.rows = update_in_place(
                                        @, CHOOSE c \in taken : TRUE, f.category)],
                           "collided")]
    /\ UNCHANGED notCacheTx
    /\ UNCHANGED <<coordVars, pipeVars, fetchVars, authVars, classVars>>

\* the caller's db.commit()
tx_commit(s) ==
    /\ cache_tx[s].pc = "idle"
    /\ cache_tx[s].work > 0 \/ cache_tx[s].rows # {}
    /\ classification_cache' = tx_view(s)
    /\ cache_tx' = [cache_tx EXCEPT ![s].work = 0, ![s].rows = {}]
    /\ UNCHANGED <<applications, email_logs, redis, _redis_unavailable, runs>>
    /\ UNCHANGED notCacheTx
    /\ UNCHANGED <<coordVars, fetchVars, authVars, classVars>>

CacheUpsertNext ==
    \/ \E s \in Sessions : _apply_result_to_application(s)
    \/ \E s \in Sessions, user_id \in Users \cup {NoUser}, h \in Hashes,
          category \in LegacyResults :
          persist_llm_result_to_cache_upsert(s, user_id, h, category)
    \/ \E s \in Sessions : persist_llm_result_to_cache_flush(s)
    \/ \E s \in Sessions : tx_commit(s)


\* ================================================= _commit_with_retry
\* email_processor._commit_with_retry(db, max_retries=6): the commits of the
\* Session answer in turn with one of these outcomes

\* longest run of commit outcomes drawn
MaxOutcomes == 8

CommitOutcomes == {"ok", "locked", "error"}

\* _is_sqlite_locked_error(e) for the OperationalError of an outcome
_is_sqlite_locked_error(outcome) == outcome = "locked"

\* the retry test with the first attempt counted as a retry
gives_up_early(attempt, max_retries, outcome) ==
    attempt + 1 >= max_retries \/ ~_is_sqlite_locked_error(outcome)

\* the test of line 241: no further attempt
gives_up(attempt, max_retries, outcome) ==
    attempt >= max_retries \/ ~_is_sqlite_locked_error(outcome)

\* the loop of _commit_with_retry from `attempt` on, the commits answering
\* with outcomes; acc counts the commits, rollbacks and sleeps so far
RECURSIVE commit_loop(_, _, _, _)
commit_loop(outcomes, attempt, max_retries, acc) ==
    LET committing == [acc EXCEPT !.commits = @ + 1]
        rolled_back == [committing EXCEPT !.rollbacks = @ + 1]
    IN IF outcomes = <<>> THEN [acc EXCEPT !.ended = "waiting"]
       ELSE IF Head(outcomes) = "ok" THEN [committing EXCEPT !.ended = "returned"]
       ELSE IF gives_up(attempt, max_retries, Head(outcomes))
       THEN [rolled_back EXCEPT !.ended = "raised"]
       ELSE commit_loop(Tail(outcomes), attempt + 1, max_retries,
                        [rolled_back EXCEPT !.sleeps = @ + 1])

\* _commit_with_retry(db, max_retries): how it ended and what it issued
_commit_with_retry(outcomes, max_retries) ==
    commit_loop(outcomes, 0, max_retries,
                [commits |-> 0, rollbacks |-> 0, sleeps |-> 0, ended |-> "waiting"])

\* the max_retries that run_sync_with_options passes (lines 831, 836)
commit_max_retries == 6

\* one call of _commit_with_retry(db, max_retries=6)
commit_with_retry_call(outcomes) ==
    /\ retry_call' = [fn |-> "_commit_with_retry", outcomes |-> outcomes,
                      out |-> _commit_with_retry(outcomes, commit_max_retries)]
    /\ UNCHANGED notRetryCall
    /\ UNCHANGED <<coordVars, pipeVars, fetchVars, authVars, classVars>>

CommitRetryNext ==
    /\ retry_call = NoRow
    /\ \E outcomes \in [1..MaxOutcomes -> CommitOutcomes] :
          commit_with_retry_call(outcomes)

\* ========================================================== _with_backoff
\* gmail_service._with_backoff(fn, max_retries=5): the calls of fn answer in
\* turn with one of these outcomes

\* longest run of provider outcomes drawn
MaxCalls == 6

\* fn returns, raises HttpError with a status, raises ssl.SSLError/OSError,
\* or raises another exception
ProviderOutcomes ==
    {"ok", "http429", "http500", "http503", "http404", "oserror", "valueerror"}

HttpError == {"http429", "http500", "http503", "http404"}

\* the retry test with every HttpError retried
retryable_any_status(outcome) == outcome \in HttpError \cup {"oserror"}

\* the errors that _with_backoff retries (lines 232, 236)
retryable(outcome) == outcome \in {"http429", "http500", "http503", "oserror"}

\* the default of max_retries, which every caller uses
backoff_max_retries == 5

\* the for loop of _with_backoff from `attempt` on; acc holds the number of
\* calls of fn and the sleeps (in seconds) so far
RECURSIVE backoff_loop(_, _, _, _)
backoff_loop(outcomes, attempt, max_retries, acc) ==
    IF attempt >= max_retries THEN [acc EXCEPT !.ended = "returned None"]
    ELSE IF outcomes = <<>> THEN [acc EXCEPT !.ended = "waiting"]
    ELSE LET called == [acc EXCEPT !.calls = @ + 1]
         IN IF Head(outcomes) = "ok" THEN [called EXCEPT !.ended = "returned"]
            ELSE IF retryable(Head(outcomes)) /\ attempt < max_retries - 1
            THEN backoff_loop(Tail(outcomes), attempt + 1, max_retries,
                              [called EXCEPT !.sleeps = Append(@, 2 ^ attempt)])
            ELSE [called EXCEPT !.ended = "raised", !.error = Head(outcomes)]

_with_backoff(outcomes, max_retries) ==
    backoff_loop(outcomes, 0, max_retries,
                 [calls |-> 0, sleeps |-> <<>>, ended |-> "waiting", error |-> "none"])

\* one call of _with_backoff(fn)
with_backoff_call(outcomes) ==
    /\ retry_call' = [fn |-> "_with_backoff", outcomes |-> outcomes,
                      out |-> _with_backoff(outcomes, backoff_max_retries)]
    /\ UNCHANGED notRetryCall
    /\ UNCHANGED <<coordVars, pipeVars, fetchVars, authVars, classVars>>

BackoffNext ==
    /\ retry_call = NoRow
    /\ \E outcomes \in [1..MaxCalls -> ProviderOutcomes] :
          with_backoff_call(outcomes)

\* ============================================================ fetch_emails
\* gmail_service.fetch_emails(service, query, max_results): the provider
\* answers each list call with a page (ids and nextPageToken) and each get
\* call with the message, or the call raises after _with_backoff gave up.

\* nextPageToken values: absent (None), empty, or a token
PageTokens == {None, "", "tokA", "tokB"}

\* the ids of one page
PageIds == UNION { [1..n -> Mids] : n \in 0..2 }

\* gmail_sync_max_pages and max_results as configured or passed
PageLimits == 1..(MaxPages + 1)
ResultLimits == 1..3

IdleFetchEmails ==
    [pc |-> "idle", max_results |-> 0, max_pages |-> 0, page_token |-> None,
     used |-> None, page_num |-> 0, messages |-> <<>>,
     next_page_token |-> None, all_emails |-> <<>>, lists |-> 0, listed |-> <<>>]

\* fetch_emails entry (lines 306-314)
fetch_emails(max_results, max_pages) ==
    /\ efetch.pc = "idle"
    /\ efetch' = [IdleFetchEmails EXCEPT !.pc = "list", !.max_results = max_results,
                                         !.max_pages = max_pages]
    /\ UNCHANGED notFetchEmails
    /\ UNCHANGED <<coordVars, pipeVars, fetchVars, authVars, classVars>>

\* list_messages(service, query, page_token=page_token) (lines 316-319);
\* used and listed record the token of the call and the ids listed so far
list_messages(page, next_page_token, raised) ==
    /\ efetch.pc = "list"
    /\ efetch' = IF raised
                 THEN [efetch EXCEPT !.pc = "raised", !.page_num = @ + 1,
                                     !.lists = @ + 1]
                 ELSE [efetch EXCEPT !.pc = "get", !.page_num = @ + 1,
                                     !.lists = @ + 1, !.used = efetch.page_token,
                                     !.messages = page,
                                     !.next_page_token = next_page_token,
                                     !.listed = @ \o page]
    /\ UNCHANGED notFetchEmails
    /\ UNCHANGED <<coordVars, pipeVars, fetchVars, authVars, classVars>>

\* get_message(service, msg["id"]) for the next id of the page (lines 322-326)
get_message(raised) ==
    /\ efetch.pc = "get"
    /\ efetch.messages # <<>>
    /\ efetch' = IF raised THEN [efetch EXCEPT !.pc = "raised"]
                 ELSE [efetch EXCEPT !.all_emails = Append(@, Head(efetch.messages)),
                                     !.messages = Tail(@)]
    /\ UNCHANGED notFetchEmails
    /\ UNCHANGED <<coordVars, pipeVars, fetchVars, authVars, classVars>>

\* `not page_token`
falsy(page_token) == page_token = None \/ page_token = ""

\* the tests of lines 335-337 without the one on max_results
page_end_unlimited(f) ==
    LET g == [f EXCEPT !.page_token = f.next_page_token]
    IN IF f.next_page_token # None /\ f.next_page_token = f.page_token
       THEN [f EXCEPT !.pc = "done"]
       ELSE IF g.page_num >= g.max_pages THEN [g EXCEPT !.pc = "done"]
       ELSE IF falsy(g.page_token) THEN [g EXCEPT !.pc = "done"]
       ELSE [g EXCEPT !.pc = "list"]

\* the end of the loop body (lines 329-338): the frame after the stall test,
\* the assignment of page_token and the two break tests
page_end(f) ==
    LET g == [f EXCEPT !.page_token = f.next_page_token]
    IN IF f.next_page_token # None /\ f.next_page_token = f.page_token
       THEN [f EXCEPT !.pc = "done"]
       ELSE IF g.page_num >= g.max_pages THEN [g EXCEPT !.pc = "done"]
       ELSE IF falsy(g.page_token) \/ Len(g.all_emails) >= g.max_results
       THEN [g EXCEPT !.pc = "done"]
       ELSE [g EXCEPT !.pc = "list"]

\* the page is fetched: break or go on with the next page
fetch_emails_page_end ==
    /\ efetch.pc = "get"
    /\ efetch.messages = <<>>
    /\ efetch' = page_end(efetch)
    /\ UNCHANGED notFetchEmails
    /\ UNCHANGED <<coordVars, pipeVars, fetchVars, authVars, classVars>>

FetchEmailsNext ==
    \/ \E max_results \in ResultLimits, max_pages \in PageLimits :
          fetch_emails(max_results, max_pages)
    \/ \E page \in PageIds, next_page_token \in PageTokens, raised \in BOOLEAN :
          list_messages(page, next_page_token, raised)
    \/ \E raised \in BOOLEAN : get_message(raised)
    \/ fetch_emails_page_end

\* ===================================== Phase 2 under storage contention
\* The single-writer loop of run_sync_with_options (lines 733-832) and the
\* commits that follow it (lines 835-850) for one run, with a storage engine
\* that can answer a write or a commit with OperationalError.  Phase 1 is
\* reduced to its outcome; a message is its index in all_emails.

\* most fetched messages of the run, most lock errors the engine raises
MaxItems == 2
MaxLocks == 2

Items == 1..MaxItems

\* what the savepoint block of one "ok" result can do
PersistOutcomes ==
    {"created", "duplicate", "IntegrityError", "locked", "OperationalError",
     "Exception"}

\* how the commits of one _commit_with_retry call answer
CommitRuns ==
    { <<"ok">>, <<"locked", "ok">>, <<"error">>,
      [k \in 1..(commit_max_retries + 1) |-> "locked"] }

\* progress(processed, total, ...): the value reported; on_progress of
\* _run_sync_task (caller "bg") commits the Session
report(f, processed) ==
    IF f.caller = "bg"
    THEN [f EXCEPT !.reported = processed, !.stored = @ \cup f.tx, !.tx = {}]
    ELSE [f EXCEPT !.reported = processed]

\* db.rollback() in the writer's handlers (lines 812, 816, 825)
session_rollback(f) == [f EXCEPT !.tx = {}]

\* Phase 1 is over (lines 560-698): the messages not in pending were counted,
\* those of created1 as created; processed_so_far = total - len(pending)
phase2_begins(caller, total, pending, created1) ==
    /\ wl = NoRow
    /\ pending \subseteq 1..total
    /\ created1 \subseteq (1..total) \ pending
    /\ wl' = report(
          [pc |-> "loop", caller |-> caller, total |-> total, todo |-> pending,
           results_q |-> <<>>, created |-> Cardinality(created1),
           skipped |-> total - Cardinality(pending) - Cardinality(created1),
           errors |-> 0, processed_so_far |-> total - Cardinality(pending),
           pending_commits |-> Cardinality(created1), tx |-> created1,
           stored |-> {}, reported |-> 0, locks |-> 0,
           counted |-> [i \in Items |-> IF i \in (1..total) \ pending THEN 1 ELSE 0],
           commit_out |-> NoRow],
          total - Cardinality(pending))
    /\ UNCHANGED notWriterLoop
    /\ UNCHANGED <<coordVars, pipeVars, fetchVars, authVars, classVars>>

\* a worker puts the result of one pending item on results_q (lines 707-721)
worker_puts(item, kind) ==
    /\ wl # NoRow /\ wl.pc = "loop"
    /\ item \in wl.todo
    /\ wl' = [wl EXCEPT !.todo = @ \ {item},
                        !.results_q = Append(@, [kind |-> kind, item |-> item])]
    /\ UNCHANGED notWriterLoop
    /\ UNCHANGED <<coordVars, pipeVars, fetchVars, authVars, classVars>>

\* the counting at the end of an iteration (lines 813-832); the batch commit
\* needs BATCH_COMMIT_SIZE writes, more than a run of the model makes
count(f, item, counter) ==
    [f EXCEPT !.created = IF counter = "created" THEN @ + 1 ELSE @,
              !.skipped = IF counter = "skipped" THEN @ + 1 ELSE @,
              !.errors = IF counter = "errors" THEN @ + 1 ELSE @,
              !.counted[item] = @ + 1,
              !.pending_commits = @ + 1]

\* one iteration of the writer loop (lines 750-832) for the head of
\* results_q, the savepoint block ending with `outcome`
writer_iteration(outcome) ==
    /\ wl # NoRow /\ wl.pc = "loop"
    /\ wl.results_q # <<>>
    /\ LET res == Head(wl.results_q)
           f == report([wl EXCEPT !.results_q = Tail(@),
                                  !.processed_so_far = @ + 1],
                       wl.processed_so_far + 1)
       IN /\ outcome = "created" => res.item \notin f.tx \cup f.stored
          /\ outcome = "locked" => f.locks < MaxLocks
          /\ res.kind = "err" => outcome = "created"
          /\ wl' =
               IF res.kind = "err" THEN count(f, res.item, "errors")
               ELSE CASE outcome = "created" ->
                           count([f EXCEPT !.tx = @ \cup {res.item}], res.item, "created")
                      [] outcome = "duplicate" -> count(f, res.item, "skipped")
                      [] outcome = "IntegrityError" ->
                           count(session_rollback(f), res.item, "skipped")
                      [] outcome = "locked" ->
                           [session_rollback(f) EXCEPT
                               !.results_q = Append(@, res), !.locks = @ + 1]
                      [] OTHER -> count(session_rollback(f), res.item, "errors")
    /\ UNCHANGED notWriterLoop
    /\ UNCHANGED <<coordVars, pipeVars, fetchVars, authVars, classVars>>

\* the effect of _commit_with_retry on the Session: a commit that succeeds
\* stores the transaction, a rollback empties it
commit_with_retry_effect(f, out) ==
    LET kept == IF out.rollbacks = 0 THEN f.tx ELSE {}
    IN IF out.ended = "returned"
       THEN [f EXCEPT !.stored = @ \cup kept, !.tx = {}, !.pending_commits = 0,
                      !.commit_out = out]
       ELSE [f EXCEPT !.tx = {}, !.pc = "raised", !.commit_out = out]

\* workers done and queue empty (line 739): the loop exits, the batch commit
\* of lines 835-837 and the commit of line 850 follow, the run returns
writer_exits(outcomes) ==
    /\ wl # NoRow /\ wl.pc = "loop"
    /\ wl.todo = {} /\ wl.results_q = <<>>
    /\ wl.pending_commits = 0 => outcomes = <<"ok">>
    /\ LET out == _commit_with_retry(outcomes, commit_max_retries)
           g == IF wl.pending_commits > 0 THEN commit_with_retry_effect(wl, out)
                ELSE wl
       IN wl' = IF g.pc = "raised" THEN g
                ELSE [g EXCEPT !.pc = "done", !.stored = @ \cup g.tx, !.tx = {}]
    /\ UNCHANGED notWriterLoop
    /\ UNCHANGED <<coordVars, pipeVars, fetchVars, authVars, classVars>>

WriterLoopNext ==
    \/ \E caller \in {"bg", "celery"}, total \in 0..MaxItems, pending \in SUBSET Items,
          created1 \in SUBSET Items :
          phase2_begins(caller, total, pending, created1)
    \/ \E item \in Items, kind \in {"ok", "err"} : worker_puts(item, kind)
    \/ \E outcome \in PersistOutcomes : writer_iteration(outcome)
    \/ \E outcomes \in CommitRuns : writer_exits(outcomes)
\* ============================================ Phase 2: workers and writer
\* The threads of Phase 2 of one run (email_processor.py lines 707-748): the
\* pending items are cut into batches, the batches are dealt to the worker
\* threads, each worker classifies its items and puts one result per item
\* on results_q, and the main thread consumes the queue until the workers
\* are done and the queue is empty.  What an iteration of the writer stores
\* is modelled by writer_iteration and writer_result; here an iteration is
\* its use of the Session and of the queue.

\* most pending items of the run
MaxPending == 3

PendingItems == 1..MaxPending

\* settings.ingestion_batch_size and settings.ingestion_workers
BatchSizes == {1, 2}
WorkerLimits == {1, 2}

\* wid of the worker threads; the writer is the main thread
WorkerIds == {0, 1}
MainThread == <<"main", 0>>
WorkerThread(w) == <<"worker", w>>

\* sorted(pending, key=lambda x: x[0])
RECURSIVE sorted(_)
sorted(S) ==
    IF S = {} THEN <<>>
    ELSE LET m == CHOOSE x \in S : \A y \in S : x <= y
         IN <<m>> \o sorted(S \ {m})

\* worker_count = min(ingestion_workers, max(1, len(batches)))
worker_count_of(workers, nb) ==
    LET m == IF nb < 1 THEN 1 ELSE nb
    IN IF workers < m THEN workers ELSE m

\* assignments[bidx % worker_count].append(bidx) for bidx in range(nb):
\* the batch indices of worker wid, in increasing order
RECURSIVE batch_indices(_, _, _, _)
batch_indices(bidx, nb, wid, wc) ==
    IF bidx >= nb THEN <<>>
    ELSE (IF bidx % wc = wid THEN <<bidx>> ELSE <<>>)
            \o batch_indices(bidx + 1, nb, wid, wc)

\* the items _worker goes through: for bidx in batch_indices: for item in
\* batches[bidx]
RECURSIVE worker_items(_, _)
worker_items(batches, indices) ==
    IF indices = <<>> THEN <<>>
    ELSE batches[Head(indices) + 1] \o worker_items(batches, Tail(indices))

\* what _worker does with the Session or the duplicate detector around the
\* classification of one item: nothing (lines 707-722)
worker_touches_logging(kind) == IF kind = "err" THEN {"session"} ELSE {}
worker_touches(kind) == {}

IdleThread == [pc |-> "unused", indices |-> <<>>, at |-> 0]

IdlePhase2 ==
    [pc |-> "idle", pending |-> <<>>, batch_size |-> 0, worker_count |-> 0,
     batches |-> <<>>, threads |-> [w \in WorkerIds |-> IdleThread],
     results_q |-> <<>>, writer |-> NoRow, locks |-> 0,
     puts |-> [i \in PendingItems |-> 0], put_by |-> [i \in PendingItems |-> {}],
     consumed |-> {},
     session_users |-> {}, detector_users |-> {}]

\* lines 702-732: batches, worker_count, assignments, and the futures
\* submitted to the executor; without pending items Phase 2 has no loop
phase2_starts(pending, batch_size, workers) ==
    /\ p2.pc = "idle"
    /\ LET batches == _chunk_list(sorted(pending), batch_size)
           wc == worker_count_of(workers, Len(batches))
       IN p2' = [IdlePhase2 EXCEPT
             !.pc = IF pending = {} THEN "exited" ELSE "loop",
             !.pending = sorted(pending), !.batch_size = batch_size,
             !.worker_count = wc, !.batches = batches,
             !.threads = [w \in WorkerIds |->
                 IF pending = {} \/ w >= wc THEN IdleThread
                 ELSE [pc |-> "run", at |-> 0,
                       indices |-> batch_indices(0, Len(batches), w, wc)]]]
    /\ UNCHANGED notPhase2
    /\ UNCHANGED <<coordVars, pipeVars, fetchVars, authVars, classVars>>

\* _worker: the next item of the thread is classified (kind "err" when
\* langgraph_process_email raises) and its result is put on results_q
worker_thread_puts(w, kind) ==
    /\ p2.pc = "loop"
    /\ p2.threads[w].pc = "run"
    /\ LET items == worker_items(p2.batches, p2.threads[w].indices)
           n == p2.threads[w].at + 1
           used == worker_touches(kind)
       IN /\ n <= Len(items)
          /\ p2' = [p2 EXCEPT
                !.threads[w].at = n,
                !.results_q = Append(@, [kind |-> kind, item |-> items[n]]),
                !.puts[items[n]] = @ + 1,
                !.put_by[items[n]] = @ \cup {w},
                !.session_users =
                    IF "session" \in used THEN @ \cup {WorkerThread(w)} ELSE @,
                !.detector_users =
                    IF "detector" \in used THEN @ \cup {WorkerThread(w)} ELSE @]
    /\ UNCHANGED notPhase2
    /\ UNCHANGED <<coordVars, pipeVars, fetchVars, authVars, classVars>>

\* _worker returns after its last item: the future is done
worker_thread_returns(w) ==
    /\ p2.pc = "loop"
    /\ p2.threads[w].pc = "run"
    /\ p2.threads[w].at = Len(worker_items(p2.batches, p2.threads[w].indices))
    /\ p2' = [p2 EXCEPT !.threads[w].pc = "done"]
    /\ UNCHANGED notPhase2
    /\ UNCHANGED <<coordVars, pipeVars, fetchVars, authVars, classVars>>

\* line 739: all(f.done() for f in futures) and results_q.empty()
loop_done_on_empty(f) == f.results_q = <<>>
loop_done(f) ==
    /\ \A w \in WorkerIds : f.threads[w].pc # "run"
    /\ f.results_q = <<>>

\* the top of an iteration (lines 737-771): the exit test, else
\* results_q.get and the progress report, whose callback may commit
writer_gets ==
    /\ p2.pc = "loop" /\ p2.writer = NoRow
    /\ IF loop_done(p2)
       THEN p2' = [p2 EXCEPT !.pc = "exited"]
       ELSE /\ p2.results_q # <<>>
            /\ p2' = [p2 EXCEPT !.writer = Head(p2.results_q),
                                !.results_q = Tail(@),
                                !.session_users = @ \cup {MainThread}]
    /\ UNCHANGED notPhase2
    /\ UNCHANGED <<coordVars, pipeVars, fetchVars, authVars, classVars>>

\* the rest of the iteration (lines 773-832): the savepoint block on the
\* Session; a lock error puts the result back on the queue
writer_persists(locked) ==
    /\ p2.pc = "loop" /\ p2.writer # NoRow
    /\ locked => (p2.writer.kind = "ok" /\ p2.locks < MaxLocks)
    /\ p2' = [p2 EXCEPT
          !.writer = NoRow,
          !.session_users = @ \cup {MainThread},
          !.results_q = IF locked THEN Append(@, p2.writer) ELSE @,
          !.locks = IF locked THEN @ + 1 ELSE @,
          !.consumed = IF locked THEN @ ELSE @ \cup {p2.writer.item}]
    /\ UNCHANGED notPhase2
    /\ UNCHANGED <<coordVars, pipeVars, fetchVars, authVars, classVars>>

Phase2Next ==
    \/ \E pending \in SUBSET PendingItems, batch_size \in BatchSizes,
          workers \in WorkerLimits : phase2_starts(pending, batch_size, workers)
    \/ \E w \in WorkerIds, kind \in {"ok", "err"} : worker_thread_puts(w, kind)
    \/ \E w \in WorkerIds : worker_thread_returns(w)
    \/ writer_gets
    \/ \E locked \in BOOLEAN : writer_persists(locked)
\* ======================================================= reprocess state
\* routers/reprocess.py start_reprocess, tasks.py reprocess_applications and
\* reprocess_state_db.py.  The table reprocess_state has the unique index
\* ux_reprocess_state_user_id (migration 5c2a6c09f6a1).  A start request and
\* the Celery task it enqueues run in different processes, each on its own
\* Session; set_reprocess_state_running reads the user's row and commits
\* later, and the two requests of the model may be of the same user.

ReprocessIds == {1, 2}

\* a row of the table (the columns the state functions decide); task_id 0
\* is NULL
ReprocessRow(u, status, message, task_id, processed) ==
    [user_id |-> u, status |-> status, message |-> message, task_id |-> task_id,
     processed |-> processed]

\* get_reprocess_state: the rows of the user (the newest first)
get_reprocess_state(table, u) == { x \in table : x.user_id = u }

\* .first(): a row, or None
first_row(rows) == IF rows = {} THEN NoRow ELSE CHOOSE x \in rows : TRUE

\* db.commit() of a Session that added a row: the unique index refuses a
\* second row of the user
insert_reprocess_state(table, row) ==
    IF get_reprocess_state(table, row.user_id) # {}
    THEN [ok |-> FALSE, table |-> table]
    ELSE [ok |-> TRUE, table |-> table \cup {row}]

\* the rows of the others, and the row of the user rewritten
rewrite(table, u, row) == { x \in table : x.user_id # u } \cup {row}

\* the UPDATE that the commit of a Session issues for a row it loaded: the
\* columns whose assigned value differs from the loaded one
orm_update(current, loaded, assigned) ==
    [c \in DOMAIN current |->
        IF assigned[c] # loaded[c] THEN assigned[c] ELSE current[c]]

\* set_reprocess_state_running, from the row it read (loaded; NoRow when the
\* user has none) to its commit
set_reprocess_state_running(table, loaded, u, message, task_id) ==
    LET row == ReprocessRow(u, "running", message, task_id, 0)
    IN IF loaded # NoRow
       THEN [ok |-> TRUE,
             table |-> rewrite(table, u,
                          orm_update(CHOOSE x \in get_reprocess_state(table, u) : TRUE,
                                     loaded, row))]
       ELSE insert_reprocess_state(table, row)

\* update_reprocess_progress
update_reprocess_progress(table, u, processed, message) ==
    LET rows == get_reprocess_state(table, u)
    IN IF rows = {}
       THEN table \cup {ReprocessRow(u, "running", message, 0, processed)}
       ELSE LET row == CHOOSE x \in rows : TRUE
            IN rewrite(table, u, [row EXCEPT !.status = "running",
                                             !.message = message,
                                             !.processed = processed])

\* set_reprocess_state_idle
set_reprocess_state_idle(table, u, processed) ==
    LET rows == get_reprocess_state(table, u)
    IN IF rows = {}
       THEN table \cup {ReprocessRow(u, "idle", "Done", 0, processed)}
       ELSE LET row == CHOOSE x \in rows : TRUE
            IN rewrite(table, u, [row EXCEPT !.status = "idle", !.message = "Done",
                                             !.processed = processed])

\* set_reprocess_state_error
set_reprocess_state_error(table, u) ==
    LET rows == get_reprocess_state(table, u)
    IN IF rows = {}
       THEN table \cup {ReprocessRow(u, "error", "", 0, 0)}
       ELSE LET row == CHOOSE x \in rows : TRUE
            IN rewrite(table, u, [row EXCEPT !.status = "error", !.message = ""])

\* one start request and its task: req is the position of the request
\* handler, task that of the Celery task
IdleReprocess ==
    [user |-> NoUser, req |-> "none", req_saw |-> NoRow,
     task |-> "none", task_saw |-> NoRow, progressed |-> FALSE]

\* POST /api/reprocess/start, line 27: reprocess_applications.delay(...)
start_reprocess(t, u) ==
    /\ rtasks[t].req = "none"
    /\ \A t2 \in ReprocessIds : t2 < t => rtasks[t2].req # "none"
    /\ rtasks' = [rtasks EXCEPT ![t] =
                     [IdleReprocess EXCEPT !.user = u, !.req = "enqueued",
                                           !.task = "queued"]]
    /\ UNCHANGED reprocess_state
    /\ UNCHANGED notReprocess
    /\ UNCHANGED <<coordVars, pipeVars, fetchVars, authVars, classVars>>

\* line 36, set_reprocess_state_running of the request: the read
start_reprocess_reads(t) ==
    /\ rtasks[t].req = "enqueued"
    /\ rtasks' = [rtasks EXCEPT
          ![t].req = "read",
          ![t].req_saw = first_row(get_reprocess_state(reprocess_state, rtasks[t].user))]
    /\ UNCHANGED reprocess_state
    /\ UNCHANGED notReprocess
    /\ UNCHANGED <<coordVars, pipeVars, fetchVars, authVars, classVars>>

\* ... and its commit; then the response (an IntegrityError is a 500)
start_reprocess_marks(t) ==
    /\ rtasks[t].req = "read"
    /\ LET out == set_reprocess_state_running(
                      reprocess_state, rtasks[t].req_saw, rtasks[t].user, "Queued", t)
       IN /\ reprocess_state' = out.table
          /\ rtasks' = [rtasks EXCEPT ![t].req = IF out.ok THEN "returned" ELSE "failed",
                                     ![t].req_saw = NoRow]
    /\ UNCHANGED notReprocess
    /\ UNCHANGED <<coordVars, pipeVars, fetchVars, authVars, classVars>>

\* a worker picks the task up; line 87, set_reprocess_state_running: the read
reprocess_applications(t) ==
    /\ rtasks[t].task = "queued"
    /\ rtasks' = [rtasks EXCEPT
          ![t].task = "read",
          ![t].task_saw = first_row(get_reprocess_state(reprocess_state, rtasks[t].user))]
    /\ UNCHANGED reprocess_state
    /\ UNCHANGED notReprocess
    /\ UNCHANGED <<coordVars, pipeVars, fetchVars, authVars, classVars>>

\* ... and its commit; an IntegrityError goes to the handler of lines
\* 106-112, which sets the error state and re-raises
reprocess_marks_running(t) ==
    /\ rtasks[t].task = "read"
    /\ LET out == set_reprocess_state_running(
                      reprocess_state, rtasks[t].task_saw, rtasks[t].user, "Starting", t)
       IN IF out.ok
          THEN /\ reprocess_state' = out.table
               /\ rtasks' = [rtasks EXCEPT ![t].task = "running", ![t].task_saw = NoRow]
          ELSE /\ reprocess_state' =
                     set_reprocess_state_error(reprocess_state, rtasks[t].user)
               /\ rtasks' = [rtasks EXCEPT ![t].task = "finished",
                                          ![t].task_saw = NoRow]
    /\ UNCHANGED notReprocess
    /\ UNCHANGED <<coordVars, pipeVars, fetchVars, authVars, classVars>>

\* on_progress of reprocess_applications (lines 89-90)
reprocess_on_progress(t) ==
    /\ rtasks[t].task = "running" /\ ~rtasks[t].progressed
    /\ reprocess_state' =
          update_reprocess_progress(reprocess_state, rtasks[t].user, 1, "Reprocessing")
    /\ rtasks' = [rtasks EXCEPT ![t].progressed = TRUE]
    /\ UNCHANGED notReprocess
    /\ UNCHANGED <<coordVars, pipeVars, fetchVars, authVars, classVars>>

\* run_reprocess_applications returned (line 104) or raised (lines 106-112)
reprocess_ends(t, raised) ==
    /\ rtasks[t].task = "running"
    /\ reprocess_state' =
          IF raised THEN set_reprocess_state_error(reprocess_state, rtasks[t].user)
          ELSE set_reprocess_state_idle(reprocess_state, rtasks[t].user, 1)
    /\ rtasks' = [rtasks EXCEPT ![t].task = "finished"]
    /\ UNCHANGED notReprocess
    /\ UNCHANGED <<coordVars, pipeVars, fetchVars, authVars, classVars>>

ReprocessNext ==
    \/ \E t \in ReprocessIds, u \in Users : start_reprocess(t, u)
    \/ \E t \in ReprocessIds : start_reprocess_reads(t)
    \/ \E t \in ReprocessIds : start_reprocess_marks(t)
    \/ \E t \in ReprocessIds : reprocess_applications(t)
    \/ \E t \in ReprocessIds : reprocess_marks_running(t)
    \/ \E t \in ReprocessIds : reprocess_on_progress(t)
    \/ \E t \in ReprocessIds, raised \in BOOLEAN : reprocess_ends(t, raised)

SvcIdle ==
    /\ cache_tx = [s \in Sessions |-> IdleTx]
    /\ retry_call = NoRow
    /\ efetch = IdleFetchEmails
    /\ wl = NoRow
    /\ p2 = IdlePhase2
    /\ reprocess_state = {}
    /\ rtasks = [t \in ReprocessIds |-> IdleReprocess]

OtherIdle == AuthIdle /\ ClassIdle /\ SvcIdle

\* ------------------------------------------------- run_sync_with_options

Workers == 1..ingestion_workers

\* fetched lists (all_emails): sequences of message ids, repeats allowed
Inputs == UNION { [1..n -> Mids] : n \in 0..MaxFetch }

\* the frame of one activation: its position, its locals, and its Session
\* (unflushed: objects added but not flushed; flushed: rows inserted in the
\* open transaction; cacheTx: uncommitted classification_cache rows).
\* caller = "bg" is _run_sync_task, whose on_progress commits this Session
\* (set_sync_progress); caller = "celery" is run_email_sync (no on_progress).
\* failed counts the messages whose parse or classification raised (the
\* environment's part of the run, not a local of the code).
IdleRun ==
    [pc |-> "idle", user |-> NoUser, caller |-> "none", input |-> <<>>, i |-> 0,
     pending |-> <<>>, todo |-> [w \in Workers |-> <<>>], results_q |-> <<>>,
     created |-> 0, skipped |-> 0, errors |-> 0, skipped_existing |-> 0,
     skipped_duplicate |-> 0, pending_commits |-> 0, detector |-> {}, failed |-> 0,
     unflushed |-> <<>>, flushed |-> {}, cacheTx |-> {}]

\* the activation returned its result dict
DoneRun(f) ==
    [IdleRun EXCEPT !.pc = "done", !.user = f.user, !.caller = f.caller,
                    !.input = f.input, !.created = f.created, !.skipped = f.skipped,
                    !.errors = f.errors, !.skipped_existing = f.skipped_existing,
                    !.skipped_duplicate = f.skipped_duplicate, !.failed = f.failed]

\* the activation raised; its caller closes the Session (rollback)
RaisedRun(f) ==
    [IdleRun EXCEPT !.pc = "raised", !.user = f.user, !.caller = f.caller,
                    !.input = f.input, !.errors = f.errors, !.failed = f.failed]

\* progress(): the callback of _run_sync_task commits the run's Session
progress(D, s, r) ==
    IF s.caller = "bg" THEN db_commit(D, s, r) ELSE [ok |-> TRUE, D |-> D, s |-> s]

\* an INSERT of one of the rows of seq waits for another activation's
\* uncommitted row with the same unique key
Blocked(r, seq) ==
    \E k \in DOMAIN seq, r2 \in RunIds \ {r} :
        unique_violation(runs[r2].flushed, seq[k])

\* batches sharded round-robin: the items of worker w, in its order
RECURSIVE shard(_, _, _, _)
shard(batches, b, w, wc) ==
    IF b > Len(batches) THEN <<>>
    ELSE (IF (b - 1) % wc = w - 1 THEN batches[b] ELSE <<>>)
            \o shard(batches, b + 1, w, wc)

assignments(pending) ==
    LET batches == _chunk_list(pending, ingestion_batch_size)
        nb == Len(batches)
        worker_count == IF nb < 1 THEN 1
                        ELSE IF nb < ingestion_workers THEN nb ELSE ingestion_workers
    IN [w \in Workers |-> IF w <= worker_count THEN shard(batches, 1, w, worker_count)
                          ELSE <<>>]

\* end of the Phase 1 loop: shard the pending items over the workers
after_phase1(f) ==
    IF f.pc = "phase1" /\ f.i > Len(f.input)
    THEN [f EXCEPT !.pc = "phase2", !.todo = assignments(f.pending)]
    ELSE f

\* the commit every BATCH_COMMIT_SIZE writes
batch_commit(D, s, r) ==
    IF s.pending_commits >= BATCH_COMMIT_SIZE
    THEN LET c == db_commit(D, s, r)
         IN [ok |-> c.ok, D |-> c.D, s |-> [c.s EXCEPT !.pending_commits = 0]]
    ELSE [ok |-> TRUE, D |-> D, s |-> s]

\* one iteration of the Phase 1 loop (lines 580-624) for input[i], where
\* parsed tells whether email_to_parts returned and c is the row the L2 lookup
\* returns.  Result: [ok, D, s, ins] with ok = FALSE when an exception leaves
\* the run, ins the rows whose INSERT was issued.
phase1_message(D, f, r, c, parsed) ==
    LET mid == f.input[f.i]
        u == f.user
        nxt == [f EXCEPT !.i = @ + 1]
        cached == _get_cached_langgraph_state(content_hash(mid), c)
        company_name == Or(cached.company_name, "Unknown")
        withProgress(s) ==
            LET p == progress(D, s, r)
            IN [ok |-> p.ok, D |-> p.D, s |-> p.s,
                ins |-> IF s.caller = "bg" THEN s.unflushed ELSE <<>>]
    IN IF ~parsed
       THEN LET s1 == [nxt EXCEPT !.unflushed = @ \o <<LogRow(u, mid, None, TRUE)>>,
                                  !.failed = @ + 1]
                cm == db_commit(D, s1, r)
            IN IF ~cm.ok THEN [ok |-> FALSE, D |-> D, s |-> s1, ins |-> s1.unflushed]
               ELSE LET p == progress(cm.D, [cm.s EXCEPT !.errors = @ + 1], r)
                    IN [ok |-> p.ok, D |-> IF p.ok THEN p.D ELSE cm.D, s |-> p.s,
                        ins |-> s1.unflushed]
       ELSE IF \E a \in visible_apps(D, f) : a.mid = mid /\ a.user = u
       THEN withProgress([nxt EXCEPT !.skipped = @ + 1, !.skipped_existing = @ + 1])
       ELSE IF cached = NoRow
       THEN [ok |-> TRUE, D |-> D, s |-> [nxt EXCEPT !.pending = Append(@, f.i)],
             ins |-> <<>>]
       ELSE IF /\ cached.email_class \in APPLICATION_LIKE_CLASSES
               /\ is_duplicate(f.detector, company_name, cached.job_title)
       THEN withProgress([nxt EXCEPT !.skipped = @ + 1, !.skipped_duplicate = @ + 1])
       ELSE LET s1 == [nxt EXCEPT
                         !.unflushed = @ \o <<AppRow(u, mid, cached),
                                              LogRow(u, mid, cached.email_class, FALSE)>>,
                         !.detector = add_application(@, company_name, cached.job_title),
                         !.created = @ + 1, !.pending_commits = @ + 1]
                b == batch_commit(D, s1, r)
            IN IF ~b.ok THEN [ok |-> FALSE, D |-> D, s |-> s1, ins |-> s1.unflushed]
               ELSE LET p == withProgress(b.s)
                    IN [ok |-> p.ok, D |-> IF p.ok THEN p.D ELSE b.D, s |-> p.s,
                        ins |-> IF s1.pending_commits >= BATCH_COMMIT_SIZE
                                THEN s1.unflushed ELSE p.ins]

\* one iteration of the single-writer loop (lines 769-832) for the result res
\* at the head of results_q, where existing is the row the cache upsert's
\* lookup returns
writer_result(D, f, r, res, existing) ==
    LET mid == f.input[res.idx]
        u == f.user
        st == res.st
        f0 == [f EXCEPT !.results_q = Tail(@)]
        p == progress(D, f0, r)
        f1 == p.s
        D1 == p.D
        finish(s, ins) ==
            LET s2 == [s EXCEPT !.pending_commits = @ + 1]
                b == batch_commit(D1, s2, r)
            IN [ok |-> b.ok, D |-> b.D, s |-> b.s, ins |-> ins]
        IntegrityError ==
            finish([db_rollback(f1) EXCEPT
                       !.skipped = @ + 1, !.skipped_existing = @ + 1], <<>>)
    IN IF ~p.ok THEN [ok |-> FALSE, D |-> D, s |-> f0, ins |-> f0.unflushed]
       ELSE IF res.kind = "err"
       THEN LET s1 == [f1 EXCEPT !.unflushed = @ \o <<LogRow(u, mid, None, TRUE)>>]
                fl == db_flush(D1, s1, r)
                s2 == IF fl.ok THEN fl.s ELSE db_rollback(f1)
            IN finish([s2 EXCEPT !.errors = @ + 1],
                      IF fl.ok THEN s1.unflushed ELSE <<>>)
       ELSE LET fl0 == db_flush(D1, f1, r)
                sc == _persist_langgraph_state_to_cache(fl0.s, r, content_hash(mid),
                                                        st, existing, u)
                company_name == Or(st.company_name, "Unknown")
            IN IF ~fl0.ok THEN IntegrityError
               ELSE IF /\ st.email_class \in APPLICATION_LIKE_CLASSES
                       /\ _is_duplicate_application(visible_apps(D1, sc), company_name,
                                                    st.job_title, received_date(mid), u)
               THEN finish([sc EXCEPT !.skipped = @ + 1, !.skipped_duplicate = @ + 1],
                           f1.unflushed)
               ELSE LET s1 == [sc EXCEPT !.unflushed =
                                  <<AppRow(u, mid, st),
                                    LogRow(u, mid, AppRow(u, mid, st).class, FALSE)>>]
                        fl1 == db_flush(D1, s1, r)
                    IN IF ~fl1.ok THEN IntegrityError
                       ELSE finish([fl1.s EXCEPT
                                       !.created = @ + 1],
                                   f1.unflushed \o s1.unflushed)

\* install the outcome of a step of activation r
Install(r, out) ==
    /\ out.ok => ~Blocked(r, out.ins)
    /\ IF out.ok
       THEN /\ runs' = [runs EXCEPT ![r] = after_phase1(out.s)]
            /\ applications' = out.D.applications
            /\ email_logs' = out.D.email_logs
            /\ classification_cache' = out.D.classification_cache
       ELSE /\ runs' = [runs EXCEPT ![r] = RaisedRun(out.s)]
            /\ UNCHANGED <<applications, email_logs, classification_cache>>

\* entry: counters zeroed, duplicate detector preloaded (lines 560-578)
run_sync_with_options(r, u, caller, input) ==
    /\ runs[r].pc = "idle"
    /\ \A r2 \in RunIds : r2 < r => runs[r2].pc # "idle"
    /\ runs' = [runs EXCEPT ![r] =
                   after_phase1([IdleRun EXCEPT
                       !.pc = "phase1", !.user = u, !.caller = caller,
                       !.input = input, !.i = 1,
                       !.detector = preload(visible_apps(DB, IdleRun), u)])]
    /\ UNCHANGED <<applications, email_logs, classification_cache, redis,
                   _redis_unavailable>>
    /\ UNCHANGED <<coordVars, fetchVars, otherVars>>

phase1_step(r, parsed) ==
    /\ runs[r].pc = "phase1"
    /\ \E c \in cache_first(DB, runs[r], content_hash(runs[r].input[runs[r].i])) :
          /\ Install(r, phase1_message(DB, runs[r], r, c, parsed))
          /\ redis' = IF ~parsed THEN redis
                      ELSE _get_cached_langgraph_state_redis(
                               redis, content_hash(runs[r].input[runs[r].i]), c)
    /\ UNCHANGED _redis_unavailable
    /\ UNCHANGED <<coordVars, fetchVars, otherVars>>

\* a worker thread classifies its next item: langgraph_process_email returns
\* a state (out.st) or raises (out.st = NoRow).  The put is taken when the
\* queue is empty: the writer still meets the workers' results in every order.
_worker(r, w, out) ==
    /\ runs[r].pc = "phase2"
    /\ runs[r].todo[w] # <<>>
    /\ runs[r].results_q = <<>>
    /\ runs' = [runs EXCEPT
          ![r].todo[w] = Tail(@),
          ![r].failed = IF out.raised THEN @ + 1 ELSE @,
          ![r].results_q = Append(@, [kind |-> IF out.st = NoRow THEN "err" ELSE "ok",
                                      idx |-> Head(runs[r].todo[w]), st |-> out.st,
                                      raised |-> out.raised])]
    /\ UNCHANGED <<applications, email_logs, classification_cache, redis,
                   _redis_unavailable>>
    /\ UNCHANGED <<coordVars, fetchVars, otherVars>>

writer_step(r) ==
    /\ runs[r].pc = "phase2"
    /\ runs[r].results_q # <<>>
    /\ LET res == Head(runs[r].results_q)
           h == content_hash(runs[r].input[res.idx])
       IN \E existing \in cache_first(DB, runs[r], h) :
             /\ Install(r, writer_result(DB, runs[r], r, res, existing))
             /\ redis' = IF res.kind = "err" THEN redis
                         ELSE set_cached_classification_redis(redis, h, NoUser, res.st)
    /\ UNCHANGED _redis_unavailable
    /\ UNCHANGED <<coordVars, fetchVars, otherVars>>

\* workers done and queue empty: the final commits (lines 835-850) and return
run_returns(r) ==
    /\ runs[r].pc = "phase2"
    /\ runs[r].results_q = <<>>
    /\ \A w \in Workers : runs[r].todo[w] = <<>>
    /\ ~Blocked(r, runs[r].unflushed)
    /\ LET c == db_commit(DB, runs[r], r)
       IN IF c.ok
          THEN /\ runs' = [runs EXCEPT ![r] = DoneRun(c.s)]
               /\ applications' = c.D.applications
               /\ email_logs' = c.D.email_logs
               /\ classification_cache' = c.D.classification_cache
          ELSE /\ runs' = [runs EXCEPT ![r] = RaisedRun(c.s)]
               /\ UNCHANGED <<applications, email_logs, classification_cache>>
    /\ UNCHANGED <<redis, _redis_unavailable>>
    /\ UNCHANGED <<coordVars, fetchVars, otherVars>>

PipeIdle ==
    /\ applications = {}
    /\ email_logs = {}
    /\ classification_cache = {}
    /\ redis = {}
    /\ _redis_unavailable = FALSE
    /\ runs = [r \in RunIds |-> IdleRun]
    /\ FetchIdle
    /\ OtherIdle

SyncInit ==
    /\ CoordInit
    /\ applications = {}
    /\ email_logs = {}
    /\ classification_cache = {}
    /\ redis = {}
    /\ _redis_unavailable = FALSE
    /\ runs = [r \in RunIds |-> IdleRun]
    /\ FetchIdle
    /\ OtherIdle

Callers == {"bg", "celery"}

\* runs one after another: an activation starts when none is in progress
NoActiveRun == \A r \in RunIds : runs[r].pc \in {"idle", "done", "raised"}

\* the users are interchangeable: the first activation is user 1's
FirstUser(r, u) == r = 1 => u = 1

\* a later activation fetches the list of the first again (a re-sync, for
\* either user) or at most one message
LaterInput(r, input) == r = 1 \/ Len(input) <= 1 \/ input = runs[1].input

\* activations overlap when each of them handles at most one message
MayOverlap(input) ==
    /\ Len(input) <= 1
    /\ \A r \in RunIds : Len(runs[r].input) <= 1

SyncNext ==
    \/ \E r \in RunIds, u \in Users, caller \in Callers, input \in Inputs :
          /\ FirstUser(r, u) /\ LaterInput(r, input)
          /\ NoActiveRun \/ MayOverlap(input)
          /\ run_sync_with_options(r, u, caller, input)
    \/ \E r \in RunIds, parsed \in BOOLEAN : phase1_step(r, parsed)
    \/ \E r \in RunIds, w \in Workers, out \in WorkerOutcomes :
          _worker(r, w, out)
    \/ \E r \in RunIds : writer_step(r)
    \/ \E r \in RunIds : run_returns(r)

SeqNext ==
    \/ \E r \in RunIds, u \in Users, caller \in Callers, input \in Inputs :
          /\ FirstUser(r, u) /\ LaterInput(r, input)
          /\ NoActiveRun
          /\ run_sync_with_options(r, u, caller, input)
    \/ \E r \in RunIds, parsed \in BOOLEAN : phase1_step(r, parsed)
    \/ \E r \in RunIds, w \in Workers, out \in WorkerOutcomes :
          _worker(r, w, out)
    \/ \E r \in RunIds : writer_step(r)
    \/ \E r \in RunIds : run_returns(r)

\* ---------------------------------------------------------- specifications

\* the coordinator alone (the ingestion activations stay idle)
CoordIdleInit == CoordInit /\ PipeIdle

SpecCoordSerial == CoordIdleInit /\ [][SerialNext]_vars

SpecCoord == CoordIdleInit /\ [][CoordNext]_vars

\* the ingestion pipeline, activations overlapping freely
SpecSync == SyncInit /\ [][SyncNext]_vars

\* the ingestion pipeline, one activation at a time
SpecSyncSeq == SyncInit /\ [][SeqNext]_vars


\* fetch_emails_parallel alone: one call after another
SpecFetchParallel == CoordIdleInit /\ [][FetchParallelNext]_vars

\* fetch_emails_from_history alone
SpecHistory == CoordIdleInit /\ [][HistoryNext]_vars

\* run_sync_with_options as called by the sync tasks, one run after another,
\* with Phases 1 and 2 reduced to their outcome
SpecPlan == CoordIdleInit /\ [][PlanNext]_vars

\* the OAuth state store with its start endpoints and concurrent callbacks
SpecOAuth == CoordIdleInit /\ [][OAuthNext]_vars

\* finish_gmail_oauth, one callback after another
SpecGmailCallback == CoordIdleInit /\ [][GmailCallbackNext]_vars


\* the classification columns of the Applications under their writers
SpecClassify == CoordIdleInit /\ [][ClassifyNext]_vars

\* the rule guards applied once and twice
SpecGuards == CoordIdleInit /\ [][GuardsNext]_vars

\* process_emails_batch on drawn inputs and LLM behaviours
SpecBatch == CoordIdleInit /\ [][BatchNext]_vars

\* persist_llm_result_to_cache under concurrent Sessions
SpecCacheUpsert == CoordIdleInit /\ [][CacheUpsertNext]_vars

\* _commit_with_retry on every run of commit outcomes
SpecCommitRetry == CoordIdleInit /\ [][CommitRetryNext]_vars

\* _with_backoff on every run of provider outcomes
SpecBackoff == CoordIdleInit /\ [][BackoffNext]_vars

\* fetch_emails against every provider; a call in progress takes its next step
SpecFetchEmails ==
    CoordIdleInit /\ [][FetchEmailsNext]_vars /\ WF_vars(FetchEmailsNext)

\* Phase 2 of one run under contention; workers and writer keep running
SpecWriterLoop ==
    CoordIdleInit /\ [][WriterLoopNext]_vars /\ WF_vars(WriterLoopNext)

\* the worker threads and the writer of Phase 2 of one run
SpecPhase2 == CoordIdleInit /\ [][Phase2Next]_vars

\* reprocess start requests and their Celery tasks
SpecReprocess == CoordIdleInit /\ [][ReprocessNext]_vars
\* ------------------------------------------------ coordinator claims

ActiveRun(t) == tasks[t].pc \in {"mem_syncing", "running"}

\* C2: per-user syncs are serialized: at no time are two runs of the same
\* user active (a StartSync issued while the user is syncing starts nothing).
C2_SerializedPerUser ==
    \A t1, t2 \in TaskIds :
        (t1 # t2 /\ ActiveRun(t1) /\ ActiveRun(t2)) => tasks[t1].user # tasks[t2].user

\* C3: every change of a user's SyncState.status is idle->syncing,
\* error->syncing (an accepted StartSync), syncing->idle, syncing->error
\* (a result, entered only from syncing) or error->idle.
StatusSteps ==
    { <<"idle", "syncing">>, <<"error", "syncing">>, <<"syncing", "idle">>,
      <<"syncing", "error">>, <<"error", "idle">> }

C3_StatusTransitions ==
    [][\A u \in Users :
          get_state_from_db(u).status # get_state_from_db(u).status'
            => <<get_state_from_db(u).status, get_state_from_db(u).status'>> \in StatusSteps]_vars

\* C10: whenever a reader sees status syncing, the error is cleared and the
\* counters created, skipped and errors are 0 (nothing is left over from the
\* previous run).
C10_SyncingCountersCleared ==
    \A u \in Users :
        LET st == get_state_from_db(u)
        IN st.status = "syncing" =>
              /\ st.error = None
              /\ st.created = 0 /\ st.skipped = 0 /\ st.errors = 0


\* C11: when a run hands back a result without error, its user's SyncState
\* row is left with status idle, message Done, processed = total = the number
\* of fetched messages, created/skipped/errors as counted by the run,
\* last_synced_at set to the time of completion, and last_full_sync_at set to
\* it when the run was a full sync and untouched otherwise.
C11_IdleAfterSuccess ==
    [][ \A t \in TaskIds :
         (tasks[t].pc = "running" /\ tasks'[t].pc = "done") =>
         \A r \in RunResults :
           (r.kind = "ok" /\ r.error = None /\ task_finish(t, r))
           => LET row == sync_state'[tasks[t].user]
                  before == sync_state[tasks[t].user]
              IN /\ row.status = "idle" /\ row.message = "Done"
                 /\ row.error = None
                 /\ row.processed = r.processed /\ row.total = r.processed
                 /\ row.created = r.created /\ row.skipped = r.skipped
                 /\ row.errors = r.errors
                 /\ row.last_synced_at = t
                 /\ row.last_full_sync_at =
                       IF r.full_sync THEN t ELSE before.last_full_sync_at ]_vars

\* a user's full sync completed, and a later run of the same user that was
\* not a full sync completed after it
C11_Witness ==
    \E u \in Users :
        /\ sync_state[u] # NoRow
        /\ sync_state[u].status = "idle" /\ sync_state[u].message = "Done"
        /\ sync_state[u].last_full_sync_at > 0
        /\ sync_state[u].last_synced_at > sync_state[u].last_full_sync_at
        /\ sync_state[u].processed > 0
        /\ \A t \in TaskIds : tasks[t].pc = "done"

\* a result that ends the run fatally: an error dict or an exception
Fatal(r) == r.kind = "raise" \/ r.error # None

\* C12: when a run ends fatally, both views of its user's state (the
\* SyncState row read by GET /sync-status, and the in-memory state of the
\* process that ran it) show status error with the error string; and a row in
\* status error leaves it only for syncing, with the error cleared.
C12_ErrorAfterFatal ==
    [][ /\ \A t \in TaskIds :
             (tasks[t].pc = "running" /\ tasks'[t].pc = "done") =>
             \A r \in RunResults :
               (Fatal(r) /\ task_finish(t, r))
               => \A u \in {tasks[t].user} :
                     /\ get_state_from_db(u)'.status = "error"
                     /\ get_state_from_db(u)'.error = r.error
                     /\ tasks[t].kind = "bg" =>
                           /\ get_state(u)'.status = "error"
                           /\ get_state(u)'.error = r.error
        /\ \A u \in Users :
             (get_state_from_db(u).status = "error"
                /\ get_state_from_db(u)'.status # "error")
             => /\ get_state_from_db(u)'.status = "syncing"
                /\ get_state_from_db(u)'.error = None ]_vars

\* --------------------------------------------------- pipeline and cache claims

Finished(r) == runs[r].pc \in {"done", "raised"}

Range(seq) == { seq[k] : k \in DOMAIN seq }

Distinct(seq) == \A j, k \in DOMAIN seq : j # k => seq[j] # seq[k]

AllSame(seq) == Len(seq) >= 2 /\ \A k \in DOMAIN seq : seq[k] = seq[1]

AppsOf(u, mid) == { a \in applications : a.user = u /\ a.mid = mid }

LogsOf(u, mid) == { l \in email_logs : l.user = u /\ l.mid = mid }

\* C1: the applications table holds at most one row for each
\* (user_id, gmail_message_id) pair, whatever syncs ran, overlapping or not,
\* and whatever ids their inputs repeated.
C1_OneApplicationPerMessage ==
    \A a, b \in applications : (a.user = b.user /\ a.mid = b.mid) => a = b

\* two overlapping syncs raced for one (user, message id): the writer of one
\* found the other's row in its way (its Phase 1 had not seen it) and counted
\* the message as existing
C1_Witness ==
    \E r \in RunIds, a \in applications :
        /\ runs[r].pc = "phase2" /\ runs[r].user = a.user /\ a.by # r
        /\ runs[r].pending = <<1>> /\ runs[r].input = <<a.mid>>
        /\ runs[r].results_q = <<>>
        /\ runs[r].skipped_existing = 1

\* C4: when a sync of a user over a set of messages has returned without
\* errors and a second sync of the same user over the same list returns, the
\* second reports created = 0 and has inserted no Application.
C4_SecondSyncNoOp ==
    ( /\ runs[1].pc = "done" /\ runs[2].pc = "done"
      /\ runs[1].errors = 0
      /\ runs[2].user = runs[1].user
      /\ runs[2].input = runs[1].input
      /\ Distinct(runs[1].input) )
    => /\ runs[2].created = 0
       /\ \A a \in applications : a.by # 2

\* C5: a sync whose input is one message id k >= 2 times, for a user with no
\* other sync and no classification failure, returns (no exception) with
\* exactly one Application and one EmailLog for the id, created = 1 and
\* skipped_existing = k - 1.
C5_RepeatedIdInOneSync ==
    \A r \in RunIds :
        ( /\ Finished(r) /\ AllSame(runs[r].input) /\ runs[r].errors = 0
          /\ \A r2 \in RunIds \ {r} : runs[r2].user # runs[r].user )
        => /\ runs[r].pc = "done"
           /\ Cardinality(AppsOf(runs[r].user, runs[r].input[1])) = 1
           /\ Cardinality(LogsOf(runs[r].user, runs[r].input[1])) = 1
           /\ runs[r].created = 1
           /\ runs[r].skipped_existing = Len(runs[r].input) - 1

\* C6: no sync creates two Applications from two different message ids that
\* are both application-like, with the same canonical company (not Unknown),
\* the same title and received dates at most 14 days apart.
C6_OneOfTwoDuplicatesCreated ==
    \A a, b \in applications :
        ( /\ a.by = b.by /\ a.user = b.user /\ a.mid # b.mid
          /\ a.class \in APPLICATION_LIKE_CLASSES
          /\ b.class \in APPLICATION_LIKE_CLASSES
          /\ a.company = b.company /\ a.company # "Unknown"
          /\ a.title = b.title
          /\ a.received - b.received <= DUPLICATE_DAYS_WINDOW
          /\ b.received - a.received <= DUPLICATE_DAYS_WINDOW )
        => FALSE

\* the Phase 1 iteration of activation r looks its message up in the cache
CacheLookupBy(r) ==
    /\ runs[r].pc = "phase1"
    /\ runs'[r] # runs[r]
    /\ runs'[r].failed = runs[r].failed
    /\ ~ \E a \in visible_apps(DB, runs[r]) :
            a.mid = runs[r].input[runs[r].i] /\ a.user = runs[r].user

\* C7: a cache lookup made for user u returns no row written for another
\* user, and no cache row changes the user it was written for.
C7_CacheUserScoped ==
    [][ /\ \A r \in RunIds :
              CacheLookupBy(r) =>
                 \A c \in cache_first(DB, runs[r],
                                      content_hash(runs[r].input[runs[r].i])) :
                    c # NoRow => c.writer = runs[r].user
        /\ \A c \in classification_cache, d \in classification_cache' :
              RowId(c) = RowId(d) => d.writer = c.writer ]_vars

\* C8: the classification_cache table holds at most one row per
\* (user_id, content_hash).
C8_CacheKeyUnique ==
    \A c, d \in classification_cache :
        (c.user_id = d.user_id /\ c.content_hash = d.content_hash) => c = d

\* C9: a cache read that misses L1 and finds the entry in L2 leaves the entry
\* in L1 (L1 being reachable).
C9_L1Repopulated ==
    [][ \A r \in RunIds :
           ( /\ CacheLookupBy(r)
             /\ ~_redis_unavailable
             /\ cache_first(DB, runs[r], content_hash(runs[r].input[runs[r].i]))
                   # {NoRow} )
           => \E e \in redis' :
                 e.content_hash = content_hash(runs[r].input[runs[r].i]) ]_vars

\* the rows of applications that activation r has inserted for message mid
\* of its user, committed or not
AppsFor(r, mid) ==
    { a \in applications \cup runs[r].flushed :
         a.tbl = "app" /\ a.mid = mid /\ a.user = runs[r].user }

\* the step of activation r meets a message whose parse raised
ParseFails(r) ==
    runs[r].pc = "phase1" /\ runs'[r].failed = runs[r].failed + 1

\* the step of activation r persists the result of a message whose
\* classification raised
WritesFailed(r) ==
    /\ runs[r].pc = "phase2" /\ runs[r].results_q # <<>>
    /\ runs'[r].results_q = Tail(runs[r].results_q)
    /\ Head(runs[r].results_q).raised

\* C20: a message that fails to parse or to classify does not abort the
\* run, produces no Application, and is counted: a run that returns has
\* errors equal to the number of messages that failed.
C20_FailuresCounted ==
    [][ \A r \in RunIds :
          /\ (ParseFails(r) \/ WritesFailed(r)) => runs'[r].pc # "raised"
          /\ WritesFailed(r) =>
                \A mid \in {runs[r].input[Head(runs[r].results_q).idx]} :
                   AppsFor(r, mid)' \subseteq AppsFor(r, mid)
          /\ runs'[r].pc = "done" => runs'[r].errors = runs'[r].failed ]_vars

\* the writer step of activation r meets the unique index: the insert of the
\* message at the head of the queue raised IntegrityError
HitsUniqueIndex(r) ==
    /\ runs[r].pc = "phase2" /\ runs[r].results_q # <<>>
    /\ runs'[r].skipped_existing = runs[r].skipped_existing + 1

\* the Applications that activation r has written and not committed
Uncommitted(r) ==
    { x \in runs[r].flushed \cup Range(runs[r].unflushed) : x.tbl = "app" }

\* the Applications that activation r stored
StoredBy(r) == { a \in applications : a.by = r }

\* C30: when the insert of an Application hits the (user_id, message id)
\* unique index, the message is counted skipped_existing and nothing but its
\* own savepoint is undone: the Applications and cache rows that the run wrote
\* before and had not committed are still in its transaction or committed
\* after the step, and a run that returns without errors reports as created
\* the number of Applications it stored.
C30_SavepointOnly ==
    /\ [][ \A r \in RunIds : HitsUniqueIndex(r) =>
             /\ \A x \in Uncommitted(r) :
                   \E y \in applications' \cup Uncommitted(r)' : Key(y) = Key(x)
             /\ \A c \in runs[r].cacheTx :
                   \E d \in classification_cache' \cup runs'[r].cacheTx :
                      RowId(d) = RowId(c) ]_vars
    /\ [](\A r \in RunIds :
             (runs[r].pc = "done" /\ runs[r].errors = 0)
                => runs[r].created = Cardinality(StoredBy(r)))

\* ------------------------------------------- mode, window and fallback claims

\* the step that enters run_sync_with_options
PlanStarts == plan'.n = plan.n + 1

C14_FallbackReplacesCursor ==
    (plan.history_too_old /\ plan.pc = "returned" /\ plan.result.error = None) =>
        /\ plan.result.full_sync
        /\ sync_state[plan.user].last_full_sync_at = plan.now
        /\ plan.profile # None
        /\ sync_state[plan.user].last_history_id = plan.profile

SetMax(S) == CHOOSE x \in S : \A y \in S : y <= x

\* C15: the queries of a full sync carry after: = the given after_date in
\* YYYY/MM/DD form, or, none given, the latest (narrowest) of the configured
\* date, last_full_sync_at, last_synced_at and now - days_back; and before:
\* exactly when a before_date is given.  (Stated for well-formed dates and
\* ignore_last_synced off.)
C15_DateWindow ==
    [][ ( /\ plan.pc = "fetch_full" /\ plan'.pc \in {"process", "returned"}
          /\ ~plan.ignore
          /\ plan.after_date.fmt # "blank" /\ plan.before_date.fmt # "blank" ) =>
        LET row == sync_state[plan.user]
            candidates ==
                { plan.now - gmail_full_sync_days_back }
                \cup (IF plan.cfg_after = NoDate THEN {} ELSE {plan.cfg_after.day})
                \cup (IF row.last_full_sync_at = 0 THEN {} ELSE {row.last_full_sync_at})
                \cup (IF row.last_synced_at = 0 THEN {} ELSE {row.last_synced_at})
        IN /\ plan'.prefix.after =
                 IF plan.after_date # NoDate THEN Slash(plan.after_date.day)
                 ELSE Slash(SetMax(candidates))
           /\ plan'.prefix.before # NoDate <=> plan.before_date # NoDate ]_vars

\* the cursor and the sync times of a SyncState row (None and 0 without a row)
Stored(row) ==
    IF row = NoRow THEN <<None, 0, 0>>
    ELSE <<row.last_history_id, row.last_synced_at, row.last_full_sync_at>>

\* the step ends a run with a connect or fetch error
FetchFailed ==
    /\ plan'.pc = "returned" /\ plan.pc \in {"idle", "returned", "raised", "fetch_full"}
    /\ plan'.result # NoRow /\ plan'.result.error # None
    /\ plan' # plan

\* C21: a run whose connect or fetch fails ends in error, and no step of it
\* creates an Application, EmailLog or cache row or changes the stored
\* cursor, last_synced_at or last_full_sync_at: only the step that ends a run
\* without error writes them.
C21_FailedFetchWritesNothing ==
    [][ /\ FetchFailed =>
              \A u \in {plan'.user} : sync_state'[u].status = "error"
        /\ (plan'.pc # "returned" \/ plan'.result.error # None) =>
              /\ applications' = applications
              /\ email_logs' = email_logs
              /\ classification_cache' = classification_cache
              /\ sync_metadata' = sync_metadata
              /\ \A u \in Users : Stored(sync_state'[u]) = Stored(sync_state[u]) ]_vars

\* a fetch failed in the run of a user who has a cursor, sync times and
\* Applications from an earlier run
C21_Witness ==
    /\ plan.pc = "returned" /\ plan.result = ErrorResult("E", TRUE)
    /\ sync_state[plan.user] # NoRow
    /\ sync_state[plan.user].status = "error"
    /\ sync_state[plan.user].last_history_id # None
    /\ sync_state[plan.user].last_full_sync_at > 0
    /\ \E a \in applications : a.user = plan.user


\* ------------------------------------------------------------ fetcher claims

Added(page) == UNION { rec.messagesAdded : rec \in Range(page.history) }

Deleted(page) == UNION { rec.messagesDeleted : rec \in Range(page.history) }

\* ids added on some page and deleted on no later one
NetAdded(pages) ==
    { m \in Mids : \E i \in DOMAIN pages :
         /\ m \in Added(pages[i])
         /\ \A j \in DOMAIN pages : j > i => m \notin Deleted(pages[j]) }

\* C16: a history fetch that returns gives, after a 404, no messages, no new
\* cursor and cursor_too_old; otherwise exactly the messages added and not
\* later deleted over all the pages, each once, with the history id of the
\* last page as new cursor and cursor_too_old false.
C16_DeltaExact ==
    hfetch.pc = "returned" =>
        IF hfetch.history_too_old
        THEN hfetch.emails = <<>> /\ hfetch.new_history_id = None
        ELSE /\ Range(hfetch.emails) = NetAdded(hfetch.pages)
             /\ Distinct(hfetch.emails)
             /\ hfetch.new_history_id = hfetch.pages[Len(hfetch.pages)].historyId

SucceededQueries == { q \in Queries : pfetch.future[q].error = None }

\* C17: the list a parallel fetch returns holds every message id that some
\* successful query returned, and holds it once, whatever the order in which
\* the queries completed.
C17_FusedOnce ==
    pfetch.pc = "returned" =>
        /\ Range(pfetch.all_emails) =
              UNION { Range(pfetch.future[q].emails) : q \in SucceededQueries }
        /\ Distinct(pfetch.all_emails)

\* two successful queries returned a common message, one of them twice
C17_Witness ==
    /\ pfetch.pc = "returned"
    /\ \E q1, q2 \in SucceededQueries :
          /\ q1 # q2
          /\ Range(pfetch.future[q1].emails) \cap Range(pfetch.future[q2].emails) # {}
          /\ ~Distinct(pfetch.future[q1].emails)
    /\ pfetch.all_emails # <<>>

\* C18: a parallel fetch raises exactly when every query failed; with one
\* query that completed without error it returns, whatever that query found.
C18_RaisesIffAllFailed ==
    pfetch.pc \in {"returned", "raised"} =>
        (pfetch.pc = "raised" <=> SucceededQueries = {})

\* C19: no two workers that are fetching at the same time use the same
\* client.
C19_OwnClient ==
    \A q1, q2 \in Queries :
        ( /\ q1 # q2
          /\ pfetch.worker[q1] = "fetching" /\ pfetch.worker[q2] = "fetching" )
        => pfetch.local_service[q1] # pfetch.local_service[q2]

\* ------------------------------------------------------------ OAuth claims

\* callback request cb ends in this step
Ends(cb) == callbacks'[cb] # callbacks[cb] /\ callbacks'[cb].pc = "idle"

\* C22: at most one consume call returns a token's payload, also when two
\* callbacks consume it concurrently; a callback is accepted only for a token
\* that is known, at most 15 minutes old and of the callback's kind; a token
\* whose row is gone never has a row again.
C22_ConsumedOnce ==
    [][ /\ \A t \in Tokens : consumed'[t] <= 1
        /\ \A cb \in Callbacks :
              (Ends(cb) /\ callbacks'[cb].outcome = "accepted") =>
                 /\ callbacks[cb].pc = "found"
                 /\ clock - callbacks[cb].row.created_at <= 15 * 60
                 /\ callbacks[cb].row.kind = callbacks[cb].endpoint
        /\ \A t \in issued : oauth_state[t] = NoRow => oauth_state'[t] = NoRow ]_vars

C24_StatusFromStage ==
    \A a \in AppIds :
        app[a] # NoRow =>
            app[a].status =
                (CASE app[a].application_stage = "Rejected" -> "REJECTED"
                   [] app[a].application_stage \in {"Interview", "Screening"} -> "INTERVIEWING"
                   [] app[a].application_stage = "Offer" -> "OFFER"
                   [] OTHER -> "APPLIED")

\* every stored Application has its category among the 14 classes and its
\* stage among the 8 stages
ClosedSets ==
    \A a \in AppIds :
        app[a] # NoRow =>
            /\ app[a].category \in EMAIL_CATEGORIES
            /\ app[a].application_stage \in Stages

\* the step is an ingestion that stores Application a, with LLM answer resp
Stores(a, resp) ==
    /\ \E dup \in BOOLEAN : ingest(a, resp, dup)
    /\ app'[a] # NoRow

\* the cache row of the content names a class outside the 14
CachedOutside ==
    state_cache # NoRow /\ Or(Get(state_cache, "email_class"), "") \notin EMAIL_CATEGORIES

\* a stored Application built from an LLM answer whose class is outside the
\* 14 has category promotional_marketing
CoercedFromLLM ==
    \A a \in AppIds, resp \in LLMResponses \ {NoRow} :
        Stores(a, resp) /\ cached_state(state_cache) = NoRow
                        /\ resp.email_class \notin EMAIL_CATEGORIES
            => app'[a].category = "promotional_marketing"

\* C25: every Application stored by ingestion (from a fresh classification or
\* from a cached state) or updated by reprocess has its category in the
\* 14-class set and its stage in the closed stage set; a class outside the set
\* that comes from the LLM or from the cache is stored as promotional_marketing.
C25_ClosedAndCoerced ==
    /\ []ClosedSets
    /\ [][/\ CoercedFromLLM
          /\ \A a \in AppIds, resp \in LLMResponses :
                Stores(a, resp) /\ CachedOutside
                    => app'[a].category = "promotional_marketing"]_vars

\* C25, amended: the closed sets hold, a class outside the set that comes
\* from the LLM is stored as promotional_marketing, and a cache row whose
\* class is outside the set is not used: the message is classified afresh,
\* stored from that classification, and the cache row replaced by it.
C25_ClosedAndFresh ==
    /\ []ClosedSets
    /\ [][/\ CoercedFromLLM
          /\ \A a \in AppIds, resp \in LLMResponses :
                Stores(a, resp) /\ CachedOutside
                    => /\ app'[a] = _create_application_and_log(process_email(mail, resp), mail)
                       /\ state_cache' = process_email(mail, resp)]_vars

\* both messages are stored, the second from the cached state of the first,
\* which was classified with a class outside the set
C25_Witness ==
    /\ app[1] # NoRow /\ app[2] = app[1]
    /\ app[1].category = "promotional_marketing" /\ app[1].confidence = 65
    /\ cached_state(state_cache) # NoRow

\* C26: a classification the graph produces with confidence below 0.65, or
\* whose LLM call failed (promotional_marketing, confidence 0.0), has
\* needs_review true, one with confidence of 0.65 or more and no failure has
\* needs_review false, and the Application stored from it carries that flag.
C26_NeedsReview ==
    /\ cached_state(state_cache) # NoRow =>
          (GetDefault(state_cache, "needs_review", FALSE)
              <=> (state_cache.confidence < 65 \/ state_cache.errors))
    /\ \A a \in AppIds :
          app[a] # NoRow => (app[a].needs_review <=> app[a].confidence < 65)

\* ------------------------------------------------------ claims: rule guards

\* the call recorded last is one of the graph's guards
Guarded == lg_call # NoRow /\ lg_call.fn = "rule_guards"

Unstable ==
    /\ lg_call.email_class = "interview_assessment"
    /\ lg_call.text.rejection /\ lg_call.text.conditional /\ ~lg_call.text.invitation

WellFormed(k) ==
    /\ lg_call.raw[k].parsed
    /\ Len(lg_call.raw[k].arr) = Cardinality(members(k, lg_call.n, lg_call.batch_size))

\* the element of the batch answer for message i (in a well-formed answer)
ItemFor(i) ==
    lg_call.raw[batch_of(i, lg_call.batch_size)].arr
        [i - first(batch_of(i, lg_call.batch_size), lg_call.batch_size) + 1]

\* the element names a critical class with a confidence below the threshold
LowCritical(item) ==
    /\ item.conf \in {"number", "missing"}
    /\ (IF item.conf = "missing" THEN 50 ELSE item.confidence) < 60
    /\ item.email_class \in {"job_rejection", "interview_assessment",
                             "job_application_confirmation"}

\* C29: process_emails_batch returns exactly one result per input message, in
\* input order, whatever the LLM does; a message is classified individually
\* exactly when its batch result has a confidence below the threshold and a
\* class among job_rejection, interview_assessment and
\* job_application_confirmation, and every message of a batch is classified
\* individually when the answer for that batch is malformed or of the wrong
\* length.
C29_BatchResults ==
    lg_call # NoRow /\ lg_call.fn = "process_emails_batch" /\ lg_call.batch_size > 1 =>
        /\ ~lg_call.out.raised
        /\ Len(lg_call.out.results) = lg_call.n
        /\ \A i \in 1..lg_call.n :
              /\ lg_call.out.results[i].email_id = i
              /\ i \in lg_call.out.individually
                    <=> \/ ~WellFormed(batch_of(i, lg_call.batch_size))
                        \/ LowCritical(ItemFor(i))

\* ------------------------------------------------ storage contention claims

\* the flush of Session s collides with a row that another Session inserted
\* for the same (user_id, content_hash)
Collides(s) ==
    /\ cache_tx[s].pc = "flush"
    /\ cache_tx'[s].pc = "idle" /\ cache_tx'[s].outcome = "collided"

\* C31: a cache upsert that collides with a concurrent insert of the same
\* (user_id, content_hash) re-reads the row and updates it in place, and it
\* leaves the enclosing transaction alone: the rows flushed before the cache
\* write and the cache rows written before it are still in the transaction.
C31_UpsertKeepsTransaction ==
    [][ \A s \in Sessions : Collides(s) =>
          /\ CacheRow(cache_tx[s].user_id, cache_tx[s].h, cache_tx[s].category)
                \in cache_tx'[s].rows
          /\ cache_tx'[s].work = cache_tx[s].work
          /\ \A d \in cache_tx[s].rows : \E e \in cache_tx'[s].rows :
                CacheKey(e) = CacheKey(d) ]_vars

\* the first commit that does not answer "locked" (past the end if none)
FirstUnlocked(outcomes) ==
    IF \E j \in DOMAIN outcomes : outcomes[j] # "locked"
    THEN CHOOSE j \in DOMAIN outcomes :
            /\ outcomes[j] # "locked"
            /\ \A i \in 1..(j - 1) : outcomes[i] = "locked"
    ELSE Len(outcomes) + 1

\* what a call that attempts the commit at most `limit` times issues: after k
\* lock failures and a success k+1 commits, k rollbacks and k sleeps; a raise
\* at the first failure that is no lock error, and when attempt `limit` fails
RetryContract(outcomes, limit) ==
    LET j == FirstUnlocked(outcomes)
    IN IF j > limit
       THEN [commits |-> limit, rollbacks |-> limit, sleeps |-> limit - 1,
             ended |-> "raised"]
       ELSE IF outcomes[j] = "ok"
       THEN [commits |-> j, rollbacks |-> j - 1, sleeps |-> j - 1,
             ended |-> "returned"]
       ELSE [commits |-> j, rollbacks |-> j, sleeps |-> j - 1, ended |-> "raised"]

CommitRetryCalled ==
    retry_call # NoRow /\ retry_call.fn = "_commit_with_retry"

\* C34 as stated: _commit_with_retry attempts the commit at most 6 times,
\* rolls back and sleeps after each lock failure, has issued k+1 commits and
\* k rollbacks after k failures and a success, and re-raises at once on a
\* non-lock error and when the 6th attempt fails.
C34_SixAttempts ==
    CommitRetryCalled => retry_call.out = RetryContract(retry_call.outcomes, 6)

\* C34, amended: the same with at most 7 attempts (the first commit and
\* max_retries = 6 retries): the call re-raises when the 7th attempt fails.
C34_SevenAttempts ==
    CommitRetryCalled =>
        retry_call.out = RetryContract(retry_call.outcomes, commit_max_retries + 1)

\* six lock failures, and the seventh commit succeeds
C34_Witness ==
    /\ CommitRetryCalled
    /\ FirstUnlocked(retry_call.outcomes) = 7
    /\ retry_call.out.ended = "returned"
    /\ retry_call.out.commits = 7 /\ retry_call.out.rollbacks = 6

BackoffCalled == retry_call # NoRow /\ retry_call.fn = "_with_backoff"

\* the first call of fn that returns or fails with an error that is not
\* HTTP 429/500/503 nor a TLS/OS error (past the end if none)
FirstFinal(outcomes) ==
    LET transient == {"http429", "http500", "http503", "oserror"}
    IN IF \E j \in DOMAIN outcomes : outcomes[j] \notin transient
       THEN CHOOSE j \in DOMAIN outcomes :
               /\ outcomes[j] \notin transient
               /\ \A i \in 1..(j - 1) : outcomes[i] \in transient
       ELSE Len(outcomes) + 1

\* C37: _with_backoff makes at most 5 attempts of a provider call; it retries
\* only after HTTP 429/500/503 or a TLS/OS error, sleeping 2^attempt seconds
\* before the next attempt; an error that is not retryable propagates from the
\* attempt it occurs at (the first, when it is the first outcome), and the
\* error of the 5th attempt propagates when all five fail.
C37_Backoff ==
    BackoffCalled =>
        LET outcomes == retry_call.outcomes
            out == retry_call.out
            j == FirstFinal(outcomes)
            n == IF j > 5 THEN 5 ELSE j
        IN /\ out.calls = n /\ out.calls <= 5
           /\ out.sleeps = [a \in 1..(n - 1) |-> 2 ^ (a - 1)]
           /\ out.ended = IF outcomes[n] = "ok" THEN "returned" ELSE "raised"
           /\ out.ended = "raised" => out.error = outcomes[n]
           /\ outcomes[1] \in {"http404", "valueerror"} =>
                 out.calls = 1 /\ out.ended = "raised"

\* four retried failures, and the fifth attempt fails too: its error leaves
\* the call
C37_Witness ==
    /\ BackoffCalled
    /\ FirstFinal(retry_call.outcomes) > 5
    /\ retry_call.out.calls = 5 /\ retry_call.out.ended = "raised"
    /\ retry_call.out.sleeps = <<1, 2, 4, 8>>

\* a stop condition holds of the page that fetch_emails fetched last: its
\* next token is absent or is the token the list call used, the page count
\* reached max_pages, or the accumulated messages reached max_results
StopHolds(f) ==
    /\ f.page_num >= 1
    /\ \/ f.next_page_token \in {None, ""}
       \/ f.next_page_token = f.used
       \/ f.page_num >= f.max_pages
       \/ Len(f.all_emails) >= f.max_results

\* C38: fetch_emails terminates whatever pages the provider answers; it
\* issues no list call once a stop condition holds of a fetched page, it
\* returns only when one holds, and it has then issued one get call per
\* listed id, in the order listed.
C38_FetchEmailsStops ==
    /\ [][ efetch'.lists > efetch.lists => ~StopHolds(efetch) ]_vars
    /\ [](efetch.pc = "done" =>
             /\ StopHolds(efetch)
             /\ efetch.all_emails = efetch.listed
             /\ efetch.lists = efetch.page_num /\ efetch.lists <= efetch.max_pages)
    /\ (efetch.pc # "idle") ~> (efetch.pc \in {"done", "raised"})

\* a fetch that went past its first page and stopped at a repeated token
\* with room left in both limits
C38_Witness ==
    /\ efetch.pc = "done"
    /\ efetch.lists = 2 /\ efetch.max_pages > 2
    /\ efetch.next_page_token = efetch.used /\ efetch.used = "tokA"
    /\ Len(efetch.all_emails) < efetch.max_results

WriterRuns == wl # NoRow /\ wl.pc = "loop"

WriterEnded == wl # NoRow /\ wl.pc \in {"done", "raised"}

\* the iteration of the writer loop meets a lock error
HitsLock == WriterRuns /\ wl'.locks = wl.locks + 1

\* C32: a result whose persistence hits a lock error is put back on the
\* queue uncounted, and what the transaction had flushed before stays in it
\* (or is committed); no message is counted twice, a run that returns has
\* counted every message once, and the writer loop ends.
C32_RetriedOnce ==
    /\ [][ HitsLock =>
             LET res == Head(wl.results_q)
             IN /\ \E k \in DOMAIN wl'.results_q : wl'.results_q[k] = res
                /\ wl'.counted = wl.counted
                /\ wl.tx \subseteq wl'.tx \cup wl'.stored ]_vars
    /\ [](wl # NoRow => \A i \in Items : wl.counted[i] <= 1)
    /\ [](wl # NoRow /\ wl.pc = "done" =>
             /\ \A i \in 1..wl.total : wl.counted[i] = 1
             /\ wl.created + wl.skipped + wl.errors = wl.total)
    /\ WriterRuns ~> WriterEnded

\* the step in which the loop exits and the batch commit is attempted
BatchCommits ==
    WriterRuns /\ wl'.pc \in {"done", "raised"} /\ wl'.commit_out # NoRow

\* C33: when the batch commit hits a lock error and a later retry succeeds,
\* every Application saved since the previous commit is stored; when it
\* raises (retries exhausted, or another error) the run ends in error and
\* what earlier commits stored is still stored.
C33_CommitRetryStores ==
    [][ BatchCommits =>
          /\ (wl'.commit_out.ended = "returned" /\ wl'.commit_out.rollbacks >= 1)
                => wl.tx \subseteq wl'.stored
          /\ wl'.commit_out.ended = "raised"
                => wl'.pc = "raised" /\ wl.stored \subseteq wl'.stored ]_vars

\* C39: every progress report of a run has 0 <= processed <= total, and a
\* run that returns has created + skipped + errors = processed = total, the
\* number of fetched messages, each counted once, re-enqueued results
\* included.
C39_CountersAddUp ==
    /\ wl # NoRow => (0 <= wl.reported /\ wl.reported <= wl.total)
    /\ (wl # NoRow /\ wl.pc = "done") =>
          /\ wl.created + wl.skipped + wl.errors = wl.total
          /\ wl.processed_so_far = wl.total
          /\ \A i \in 1..wl.total : wl.counted[i] = 1

Phase2Runs == p2.pc \in {"loop", "exited"} /\ p2.pending # <<>>

PositionOf(item) ==
    (CHOOSE k \in DOMAIN p2.pending : p2.pending[k] = item) - 1

InPending(item) == \E k \in DOMAIN p2.pending : p2.pending[k] = item

ReprocessSettled(u) ==
    /\ \E t \in ReprocessIds : rtasks[t].user = u
    /\ \A t \in ReprocessIds : rtasks[t].user = u =>
          rtasks[t].req \in {"returned", "failed"} /\ rtasks[t].task = "finished"

\* C40: in every interleaving of start requests and tasks, once a user's
\* tasks have finished the user's ReprocessState is idle or error, and the
\* table never holds more than one row of a user.
C40_ReprocessSettles ==
    \A u \in Users :
       /\ Cardinality(get_reprocess_state(reprocess_state, u)) <= 1
       /\ ReprocessSettled(u) =>
             \E x \in get_reprocess_state(reprocess_state, u) :
                x.status \in {"idle", "error"}

Init == CoordIdleInit
Next == CoordNext
Spec == Init /\ [][Next]_vars
====
